---- MODULE Spec2Model ----
(***************************************************************************)
(* Subscription detection of the smart-financial-coach backend:           *)
(*   backend/ML_models/find_subscriptions.py  (normaliser, feature        *)
(*       extractor, training, scoring)                                     *)
(*   backend/app.py  (model start-up, GET /files/{id}/subscriptions,       *)
(*       upload, delete and the hash registry)                             *)
(*   backend/ML_models/categories_knn.py  (the vote of knn_predict)        *)
(*                                                                         *)
(* Text is a sequence of one-character strings.  A float is a binary      *)
(* floating-point number with a FloatBits-bit significand, rounded to     *)
(* nearest-even after every operation (float64 has 53 bits; the exponent  *)
(* range is not bounded here), or NaN, or +/-Infinity.                    *)
(***************************************************************************)
EXTENDS Integers, Sequences, FiniteSets, TLC

(***************************************************************************)
(* Bounds of the model.                                                    *)
(***************************************************************************)
FloatBits == 8      \* significand width of the model's floats
MaxLen == 3         \* longest description given to the normaliser
MaxTx == 3          \* most rows of a transaction table
MaxMonths == 5      \* most consecutive months of a monthly charge

(***************************************************************************)
(* Floating point.                                                         *)
(***************************************************************************)
RECURSIVE Pow2(_)
Pow2(k) == IF k <= 0 THEN 1 ELSE 2 * Pow2(k - 1)
PowerOfTwo == [k \in 0..30 |-> Pow2(k)]

Sign(i) == IF i > 0 THEN 1 ELSE IF i < 0 THEN -1 ELSE 0
Abs(i) == IF i < 0 THEN -i ELSE i

\* the number of binary digits of n >= 0
BitLen8 == [n \in 0..255 |-> CHOOSE b \in 0..8 :
                n < Pow2(b) /\ (b = 0 \/ n >= Pow2(b - 1))]
RECURSIVE BitLen(_)
BitLen(n) == IF n < 256 THEN BitLen8[n] ELSE 8 + BitLen(n \div 256)

\* A finite float is m * 2^e with MantLo <= |m| < MantHi, or zero.
MantHi == Pow2(FloatBits)
MantLo == Pow2(FloatBits - 1)
Finite(m, e) == [k |-> "num", m |-> m, e |-> e]
Zero == Finite(0, 0)
One == Finite(MantLo, 1 - FloatBits)
Half == Finite(MantLo, -FloatBits)
NaN == [k |-> "nan", m |-> 0, e |-> 0]
Inf(sgn) == [k |-> "inf", m |-> sgn, e |-> 0]

IsNaN(a) == a.k = "nan"
\* np.isfinite
IsFinite(a) == a.k = "num"

FNeg(a) == [a EXCEPT !.m = -a.m]
FAbs(a) == [a EXCEPT !.m = Abs(a.m)]

\* n / d times 2^t, as a numerator and a denominator
ScaledNum(n, t) == IF t >= 0 THEN n * PowerOfTwo[t] ELSE n
ScaledDen(d, t) == IF t >= 0 THEN d ELSE d * PowerOfTwo[-t]
\* the quotient q of a division by d with remainder r, rounded to nearest,
\* ties to even
RoundQuotient(q, r, d) ==
    IF 2 * r > d \/ (2 * r = d /\ q % 2 = 1) THEN q + 1 ELSE q
Normal(m, e) == IF m = MantHi THEN Finite(MantLo, e + 1) ELSE Finite(m, e)
RoundScaled(nn, dd, e) == Normal(RoundQuotient(nn \div dd, nn % dd, dd), e)
RoundAt(n, d, e, t) == RoundScaled(ScaledNum(n, t), ScaledDen(d, t), e - t)
\* t is t0 unless the quotient scaled by 2^t0 has a digit too many
RoundFrom(n, d, e, t0) ==
    RoundAt(n, d, e, IF ScaledNum(n, t0) \div ScaledDen(d, t0) >= MantHi
                     THEN t0 - 1 ELSE t0)
\* the float nearest to (n / d) * 2^e, for n, d > 0: n/d is scaled by the
\* power of two that brings it into [MantLo, MantHi) and rounded to an
\* integer, ties to even
RoundPos(n, d, e) == RoundFrom(n, d, e, FloatBits + BitLen(d) - BitLen(n))

\* the float nearest to (n / d) * 2^e (d > 0)
WithSignOf(n, a) == IF n < 0 THEN FNeg(a) ELSE a
Rnd(n, d, e) ==
    IF n = 0 THEN Zero ELSE WithSignOf(n, RoundPos(Abs(n), d, e))

\* float(i)
FromInt(i) == Rnd(i, 1, 0)

\* a + b for finite a, b: the exact sum, rounded; an operand more than
\* FloatBits + 1 places below the other is under a quarter of its last place
AddAligned(a, b, e) ==
    Rnd(a.m * PowerOfTwo[a.e - e] + b.m * PowerOfTwo[b.e - e], 1, e)
AddFinite(a, b) ==
    IF a.m = 0 THEN b
    ELSE IF b.m = 0 THEN a
    ELSE IF a.e - b.e > FloatBits + 1 THEN a
    ELSE IF b.e - a.e > FloatBits + 1 THEN b
    ELSE AddAligned(a, b, IF a.e >= b.e THEN b.e ELSE a.e)

FAdd(a, b) ==
    IF IsNaN(a) \/ IsNaN(b) THEN NaN
    ELSE IF a.k = "inf" /\ b.k = "inf" THEN (IF a.m = b.m THEN a ELSE NaN)
    ELSE IF a.k = "inf" THEN a
    ELSE IF b.k = "inf" THEN b
    ELSE AddFinite(a, b)

FSub(a, b) == FAdd(a, FNeg(b))

FMul(a, b) ==
    IF IsNaN(a) \/ IsNaN(b) THEN NaN
    ELSE IF a.k = "inf" \/ b.k = "inf"
    THEN (IF a.m = 0 \/ b.m = 0 THEN NaN ELSE Inf(Sign(a.m) * Sign(b.m)))
    ELSE Rnd(a.m * b.m, 1, a.e + b.e)

FDiv(a, b) ==
    IF IsNaN(a) \/ IsNaN(b) THEN NaN
    ELSE IF a.k = "inf"
    THEN (IF b.k = "inf" THEN NaN
          ELSE Inf(a.m * (IF b.m < 0 THEN -1 ELSE 1)))
    ELSE IF b.k = "inf" THEN Zero
    ELSE IF b.m = 0 THEN (IF a.m = 0 THEN NaN ELSE Inf(Sign(a.m)))
    ELSE Rnd(Sign(b.m) * a.m, Abs(b.m), a.e - b.e)

\* floor of the square root of n, searched in lo..hi
RECURSIVE ISqrt(_, _, _)
ISqrt(lo, hi, n) ==
    IF lo >= hi THEN lo
    ELSE LET mid == (lo + hi + 1) \div 2
         IN  IF mid * mid <= n THEN ISqrt(mid, hi, n)
                               ELSE ISqrt(lo, mid - 1, n)

\* the float nearest to sqrt(m * 2^e), m a significand: m is scaled into
\* [MantLo^2, MantHi^2) by an s that leaves e - s even; q is the floor of
\* the root of the scaled n
SqrtRounded(q, n, e) ==
    Normal(IF (2 * q + 1) * (2 * q + 1) <= 4 * n THEN q + 1 ELSE q, e)
SqrtScaled(n, e) == SqrtRounded(ISqrt(MantLo, MantHi - 1, n), n, e)
SqrtShift(m, e, s) == SqrtScaled(m * PowerOfTwo[s], (e - s) \div 2)
SqrtPos(m, e) ==
    SqrtShift(m, e, IF (e - FloatBits) % 2 = 0 THEN FloatBits ELSE FloatBits - 1)

\* np.sqrt
FSqrt(a) ==
    IF IsNaN(a) THEN NaN
    ELSE IF a.m < 0 THEN NaN
    ELSE IF a.k = "inf" THEN a
    ELSE IF a.m = 0 THEN Zero
    ELSE SqrtPos(a.m, a.e)

\* a < b for finite a, b
LtFinite(a, b) ==
    IF Sign(a.m) # Sign(b.m) THEN Sign(a.m) < Sign(b.m)
    ELSE IF a.m > 0 THEN a.e < b.e \/ (a.e = b.e /\ a.m < b.m)
    ELSE IF a.m < 0 THEN a.e > b.e \/ (a.e = b.e /\ a.m < b.m)
    ELSE FALSE

\* comparisons: every comparison with NaN is false
FLt(a, b) ==
    /\ ~IsNaN(a) /\ ~IsNaN(b)
    /\ IF a.k = "inf" THEN a.m < 0 /\ ~(b.k = "inf" /\ b.m < 0)
       ELSE IF b.k = "inf" THEN b.m > 0
       ELSE LtFinite(a, b)
FGt(a, b) == FLt(b, a)
FLe(a, b) == ~IsNaN(a) /\ ~IsNaN(b) /\ ~FLt(b, a)
FGe(a, b) == FLe(b, a)

(***************************************************************************)
(* Text.                                                                   *)
(***************************************************************************)
Lower == <<"a","b","c","d","e","f","g","h","i","j","k","l","m",
           "n","o","p","q","r","s","t","u","v","w","x","y","z">>
Upper == <<"A","B","C","D","E","F","G","H","I","J","K","L","M",
           "N","O","P","Q","R","S","T","U","V","W","X","Y","Z">>
Letters == {Upper[i] : i \in 1..26}
Digits == {"0","1","2","3","4","5","6","7","8","9"}
Whitespace == {" ", "\t", "\n", "\r", "\f"}

\* str.upper of one character
LowerLetters == {Lower[i] : i \in 1..26}
ToUpper == [c \in LowerLetters |-> Upper[CHOOSE i \in 1..26 : Lower[i] = c]]
UpperChar(c) == IF c \in LowerLetters THEN ToUpper[c] ELSE c

\* .str.upper()
StrUpper(s) == [i \in 1..Len(s) |-> UpperChar(s[i])]

\* .str.replace(r"[^A-Z0-9&+ ]", "", regex=True)
KeptChars == Letters \cup Digits \cup {"&", "+", " "}
IsKept(c) == c \in KeptChars
RemoveOther(s) == SelectSeq(s, IsKept)

\* .str.replace(r"\s+", " ", regex=True)
RECURSIVE CollapseWs(_)
CollapseWs(s) ==
    IF s = <<>> THEN <<>>
    ELSE IF Head(s) \in Whitespace
    THEN IF Len(s) > 1 /\ s[2] \in Whitespace
         THEN CollapseWs(Tail(s))
         ELSE <<" ">> \o CollapseWs(Tail(s))
    ELSE <<Head(s)>> \o CollapseWs(Tail(s))

\* .str.strip()
RECURSIVE LStrip(_)
LStrip(s) ==
    IF s # <<>> /\ Head(s) \in Whitespace THEN LStrip(Tail(s)) ELSE s
RECURSIVE RStrip(_)
RStrip(s) ==
    IF s # <<>> /\ s[Len(s)] \in Whitespace
    THEN RStrip(SubSeq(s, 1, Len(s) - 1)) ELSE s
StrStrip(s) == LStrip(RStrip(s))

\* _norm_merchant, on one element of the series
NormNoFinalStrip(s) == CollapseWs(RemoveOther(StrStrip(StrUpper(s))))
NormDropsPlus(s) ==
    StrStrip(CollapseWs(SelectSeq(RemoveOther(StrUpper(s)),
                                  LAMBDA c : c # "+")))
NormMerchant(s) == StrStrip(CollapseWs(RemoveOther(StrUpper(s))))

(***************************************************************************)
(* Order of texts (Python str comparison on the characters a key holds).  *)
(***************************************************************************)
AsciiOrder == <<" ", "&", "+">> \o
              <<"0","1","2","3","4","5","6","7","8","9">> \o Upper
RankOf == [c \in {AsciiOrder[i] : i \in 1..Len(AsciiOrder)} |->
              CHOOSE i \in 1..Len(AsciiOrder) : AsciiOrder[i] = c]
CharRank(c) == IF c \in DOMAIN RankOf THEN RankOf[c] ELSE 0
RECURSIVE TextLt(_, _)
TextLt(a, b) ==
    IF b = <<>> THEN FALSE
    ELSE IF a = <<>> THEN TRUE
    ELSE IF Head(a) = Head(b) THEN TextLt(Tail(a), Tail(b))
    ELSE CharRank(Head(a)) < CharRank(Head(b))

\* the texts of a set in ascending order (groupby sorts its keys)
RECURSIVE SortedTexts(_)
SortedTexts(S) ==
    IF S = {} THEN <<>>
    ELSE LET m == CHOOSE a \in S : \A b \in S \ {a} : TextLt(a, b)
         IN  <<m>> \o SortedTexts(S \ {m})

(***************************************************************************)
(* Calendar: a date is the ordinal of a day of one (non-leap) year;       *)
(* NaT is what an unparseable date cell becomes.                           *)
(***************************************************************************)
DaysInMonth == <<31, 28, 31, 30, 31, 30, 31, 31, 30, 31, 30, 31>>
NaT == 0
RECURSIVE DaysBefore(_)
DaysBefore(m) == IF m <= 1 THEN 0 ELSE DaysInMonth[m - 1] + DaysBefore(m - 1)
Date(m, d) == DaysBefore(m) + d
MonthStart == [m \in 1..13 |-> DaysBefore(m)]
\* date.dt.to_period("M")
MonthOf(t) == CHOOSE m \in 1..12 : MonthStart[m] < t /\ t <= MonthStart[m + 1]
\* date.dt.day
DayOf(t) == t - MonthStart[MonthOf(t)]

(***************************************************************************)
(* Series statistics as pandas and numpy compute them.                     *)
(***************************************************************************)
\* acc + xs[i] + ... + xs[j], added left to right
RECURSIVE FSumRange(_, _, _, _)
FSumRange(xs, i, j, acc) ==
    IF i > j THEN acc
    ELSE LET next == FAdd(acc, xs[i])
         IN  IF IsNaN(next) THEN NaN ELSE FSumRange(xs, i + 1, j, next)
\* the same sum, taken in stretches of sixteen elements
RECURSIVE FSumAcc(_, _, _)
FSumAcc(xs, i, acc) ==
    IF i > Len(xs) THEN acc
    ELSE LET j == IF i + 15 < Len(xs) THEN i + 15 ELSE Len(xs)
             next == FSumRange(xs, i, j, acc)
         IN  IF IsNaN(next) THEN NaN ELSE FSumAcc(xs, j + 1, next)
\* .sum(): the elements added left to right
FSum(xs) == FSumAcc(xs, 1, Zero)

\* Series.mean(): sum / count
Mean(xs) == FDiv(FSum(xs), FromInt(Len(xs)))

\* Series.var(ddof): NaN unless count > ddof; else the squared deviations
\* from the mean, summed, over count - ddof
Var(xs, ddof) ==
    IF Len(xs) <= ddof THEN NaN
    ELSE LET avg == Mean(xs)
             sqr == [i \in 1..Len(xs) |->
                        LET dv == FSub(avg, xs[i]) IN FMul(dv, dv)]
         IN  FDiv(FSum(sqr), FromInt(Len(xs) - ddof))

\* Series.std() (ddof = 1) and ndarray.std() (ddof = 0)
Std(xs) == FSqrt(Var(xs, 1))
NpStd(xs) == FSqrt(Var(xs, 0))

\* floats in ascending order (stable insertion)
RECURSIVE InsertFloat(_, _)
InsertFloat(sorted, x) ==
    IF sorted = <<>> THEN <<x>>
    ELSE IF FLt(x, Head(sorted)) THEN <<x>> \o sorted
    ELSE <<Head(sorted)>> \o InsertFloat(Tail(sorted), x)
RECURSIVE SortFloats(_)
SortFloats(xs) ==
    IF xs = <<>> THEN <<>>
    ELSE InsertFloat(SortFloats(SubSeq(xs, 1, Len(xs) - 1)), xs[Len(xs)])

\* np.median: the middle element, or the mean of the two middle ones
Median(xs) ==
    LET a == SortFloats(xs)
        n == Len(xs)
    IN  IF n % 2 = 1 THEN a[(n + 1) \div 2]
        ELSE Mean(<<a[n \div 2], a[n \div 2 + 1]>>)

\* numpy _lerp(a, b, t)
Lerp(a, b, t) ==
    LET diff == FSub(b, a)
    IN  IF FGe(t, Half) THEN FSub(b, FMul(diff, FSub(One, t)))
        ELSE FAdd(a, FMul(diff, t))

\* np.percentile(xs, q), linear interpolation, q a multiple of 25
Percentile(xs, q) ==
    LET a == SortFloats(xs)
        n == Len(xs)
        num == (n - 1) * (q \div 25)         \* virtual index = num / 4
        lo == num \div 4
        hi == IF lo + 1 < n THEN lo + 1 ELSE n - 1
    IN  Lerp(a[lo + 1], a[hi + 1], Rnd(num % 4, 4, 0))

(***************************************************************************)
(* merchant_features.  A table is [cols, rows]; a row holds the cells     *)
(* date (a day ordinal, or anything else for text that is no date),       *)
(* description (a text, or NullText for an empty cell) and amount (a      *)
(* float, or NotANumber for text that is no number).                      *)
(***************************************************************************)
AllColumns == {"date", "description", "amount"}
NullText == <<"<NA>">>
NotANumber == [k |-> "str", m |-> 0, e |-> 0]
FivePow9 == 1953125
Lag == 30

\* pd.to_datetime(x["date"], errors="coerce")
ToDatetime(c) == IF c \in 1..365 THEN c ELSE NaT
\* pd.to_numeric(..., errors="coerce")
ToNumeric(c) == IF c.k \in {"num", "inf", "nan"} THEN c ELSE NaN

\* abs(v) > 1e-9, where 1e-9 = 1 / (2^9 * 5^9): decided by the exponent
\* unless 2^-30 <= |v| < 2^-29
GtEps(v) ==
    \/ v.k = "inf"
    \/ /\ v.k = "num" /\ v.m # 0
       /\ \/ v.e + FloatBits > -29
          \/ /\ v.e + FloatBits = -29
             /\ Abs(v.m) * FivePow9 > PowerOfTwo[FloatBits + 20]

\* line 28: x = df.copy(); every assignment of merchant_features is to x,
\* so the caller's table is after the call what it was before
CallerTableInPlace(df) ==
    [cols |-> df.cols \cup {"amount"},
     rows |-> SelectSeq(df.rows, LAMBDA r :
                  ToDatetime(r.date) # NaT /\ r.description # NullText)]
CallerTable(df) == df

\* lines 28-32: the rows with a date and a description, with the parsed
\* date, the numeric amount and the merchant key
Prepare(df) ==
    LET kept == SelectSeq(df.rows, LAMBDA r :
                    ToDatetime(r.date) # NaT /\ r.description # NullText)
    IN  [i \in 1..Len(kept) |->
            [date |-> ToDatetime(kept[i].date),
             amount |-> IF "amount" \in df.cols
                        THEN ToNumeric(kept[i].amount) ELSE NaN,
             m |-> NormMerchant(kept[i].description)]]

\* g.sort_values("date"): rows of equal date keep their order
RECURSIVE InsertByDate(_, _)
InsertByDate(sorted, r) ==
    IF sorted = <<>> THEN <<r>>
    ELSE IF r.date < Head(sorted).date THEN <<r>> \o sorted
    ELSE <<Head(sorted)>> \o InsertByDate(Tail(sorted), r)
RECURSIVE SortByDate(_)
SortByDate(rows) ==
    IF rows = <<>> THEN <<>>
    ELSE InsertByDate(SortByDate(SubSeq(rows, 1, Len(rows) - 1)),
                      rows[Len(rows)])

\* the rows of key m in the order of the table
GroupUnsorted(x, m) == SelectSeq(x, LAMBDA r : r.m = m)
\* every row in every group
GroupOfAll(x, m) == SortByDate(x)
\* the group of key m, as the loop body sees it
Group(x, m) == SortByDate(SelectSeq(x, LAMBDA r : r.m = m))

\* lines 72-74: the 0/1 series of the days from the first to the last date
Daily(dates) ==
    [i \in 1..(dates[Len(dates)] - dates[1] + 1) |->
        IF \E j \in 1..Len(dates) : dates[j] = dates[1] + i - 1
        THEN One ELSE Zero]

\* np.corrcoef(x0, x1)[0, 1]
Dot(a, b) == FSum([i \in 1..Len(a) |-> FMul(a[i], b[i])])
Clip(r) ==
    IF FGt(r, One) THEN One
    ELSE IF FLt(r, FNeg(One)) THEN FNeg(One)
    ELSE r
Covariance(d0, d1, fact) == FMul(Dot(d0, d1), fact)
Correlation(d0, d1, fact) ==
    Clip(FDiv(FDiv(Covariance(d0, d1, fact), FSqrt(Covariance(d0, d0, fact))),
              FSqrt(Covariance(d1, d1, fact))))
Centered(x, avg) == [i \in 1..Len(x) |-> FSub(x[i], avg)]
CorrCoef(x0, x1) ==
    Correlation(Centered(x0, Mean(x0)), Centered(x1, Mean(x1)),
                FDiv(One, FromInt(Len(x0) - 1)))

\* the same with the halves taken fifteen days apart
AutocorrAtHalfLag(x, lag_days) ==
    IF Len(x) <= lag_days \div 2 THEN Zero
    ELSE CorrCoef(SubSeq(x, 1, Len(x) - lag_days \div 2),
                  SubSeq(x, lag_days \div 2 + 1, Len(x)))
\* _autocorr_at_lag
AutocorrAtLag(x, lag_days) ==
    IF Len(x) <= lag_days THEN Zero
    ELSE LET x0 == SubSeq(x, 1, Len(x) - lag_days)
             x1 == SubSeq(x, lag_days + 1, Len(x))
         IN  IF NpStd(x0) = Zero THEN Zero
             ELSE IF NpStd(x1) = Zero THEN Zero
             ELSE CorrCoef(x0, x1)

\* lines 39-51: gap_cv of a sorted group's dates
GapsOf(dates) == [i \in 1..(Len(dates) - 1) |-> FromInt(dates[i + 1] - dates[i])]
GapCvZeroDefault(dates) ==
    LET gaps == GapsOf(dates)
        avg == Mean(gaps)
    IN  IF Len(dates) >= 2
        THEN IF gaps # <<>> /\ avg # Zero /\ IsFinite(avg)
             THEN FDiv(Std(gaps), avg)
             ELSE One
        ELSE Zero
GapCvOfAnyMean(dates) ==
    IF Len(dates) >= 2
    THEN FDiv(Std(GapsOf(dates)), Mean(GapsOf(dates)))
    ELSE One
GapCv(dates) ==
    LET gaps == GapsOf(dates)
        avg == Mean(gaps)
    IN  IF Len(dates) >= 2
        THEN IF gaps # <<>> /\ avg # Zero /\ IsFinite(avg)
             THEN FDiv(Std(gaps), avg)
             ELSE One
        ELSE One
MedianGap(dates) ==
    LET gaps == GapsOf(dates)
    IN  IF Len(dates) >= 2
        THEN (IF gaps # <<>> THEN Median(gaps) ELSE Zero)
        ELSE Zero
SpanDays(dates) ==
    IF Len(dates) >= 2 THEN dates[Len(dates)] - dates[1] ELSE 0

\* lines 53-64: amount stability
AmountMean(amt) == IF Len(amt) > 0 THEN Mean(amt) ELSE Zero
AmountCv(amt, amt_mean) ==
    IF Len(amt) > 1 /\ GtEps(amt_mean)
    THEN FDiv(Std(amt), FAbs(amt_mean))
    ELSE Zero
AmountIqrRatio(amt, amt_mean) ==
    IF Len(amt) >= 4 /\ GtEps(amt_mean)
    THEN LET iqr == FSub(Percentile(amt, 75), Percentile(amt, 25))
         IN  IF IsFinite(iqr) THEN FDiv(iqr, FAbs(amt_mean)) ELSE Zero
    ELSE Zero

\* lines 66-69: months covered and day of month
CoverageByDay(dates) ==
    Cardinality({DayOf(dates[i]) : i \in 1..Len(dates)})
CoverageOfLaterMonths(dates) ==
    Cardinality({MonthOf(dates[i]) : i \in 1..Len(dates)}) - 1
CoverageMonths(dates) ==
    Cardinality({MonthOf(dates[i]) : i \in 1..Len(dates)})
DomCount(dom, d) == Cardinality({i \in 1..Len(dom) : dom[i] = d})
\* the largest of the most frequent days
DomModeLargest(dom) ==
    IF Len(dom) = 0 THEN 0
    ELSE CHOOSE d \in {dom[i] : i \in 1..Len(dom)} :
            \A o \in {dom[i] : i \in 1..Len(dom)} :
                \/ DomCount(dom, o) < DomCount(dom, d)
                \/ (DomCount(dom, o) = DomCount(dom, d) /\ o <= d)
\* dom.mode().iat[0]: the smallest of the most frequent days
DomMode(dom) ==
    IF Len(dom) = 0 THEN 0
    ELSE LET doms == {dom[i] : i \in 1..Len(dom)}
             cnt == [d \in doms |-> DomCount(dom, d)]
         IN  CHOOSE d \in doms : \A o \in doms :
                cnt[o] < cnt[d] \/ (cnt[o] = cnt[d] /\ d <= o)
DomConsistency(dom, dom_mode) ==
    IF Len(dom) = 0 THEN Zero
    ELSE FDiv(FromInt(DomCount(dom, dom_mode)), FromInt(Len(dom)))

\* lines 98-100: F[num_cols].replace([np.inf, -np.inf], np.nan)
ReplaceInf(v) == IF v.k = "inf" THEN NaN ELSE v

\* lines 36-93: the feature row of one group (a float column's values pass
\* through the final replace; the integer columns hold no infinity)
GroupFeatures(m, g) ==
    LET dates == [i \in 1..Len(g) |-> g[i].date]
        amt == SelectSeq([i \in 1..Len(g) |-> g[i].amount],
                         LAMBDA a : ~IsNaN(a))
        amt_mean == AmountMean(amt)
        dom == [i \in 1..Len(g) |-> DayOf(dates[i])]
        dom_mode == DomMode(dom)
        ac30 == AutocorrAtLag(Daily(dates), Lag)
        negatives == Cardinality({i \in 1..Len(g) : FLt(g[i].amount, Zero)})
    IN  [merchant |-> m,
         n_occurrences |-> Len(g),
         coverage_months |-> CoverageMonths(dates),
         median_gap_days |-> ReplaceInf(MedianGap(dates)),
         gap_cv |-> ReplaceInf(GapCv(dates)),
         day_of_month_mode |-> dom_mode,
         dom_consistency |-> ReplaceInf(DomConsistency(dom, dom_mode)),
         amount_mean |-> ReplaceInf(amt_mean),
         amount_cv |-> ReplaceInf(AmountCv(amt, amt_mean)),
         amount_iqr_ratio |-> ReplaceInf(AmountIqrRatio(amt, amt_mean)),
         autocorr_30d |-> ReplaceInf(IF IsFinite(ac30) THEN ac30 ELSE Zero),
         share_negative |-> ReplaceInf(FDiv(FromInt(negatives), FromInt(Len(g)))),
         span_days |-> SpanDays(dates)]

FloatColumns == {"median_gap_days", "gap_cv", "dom_consistency", "amount_mean",
                 "amount_cv", "amount_iqr_ratio", "autocorr_30d", "share_negative"}
IntColumns == {"n_occurrences", "coverage_months", "day_of_month_mode", "span_days"}
\* the columns of a non-empty feature table, in the order of the dict
FeatureColumns == <<"n_occurrences", "coverage_months", "median_gap_days",
                    "gap_cv", "day_of_month_mode", "dom_consistency",
                    "amount_mean", "amount_cv", "amount_iqr_ratio",
                    "autocorr_30d", "share_negative", "span_days">>

\* merchant_features: a KeyError when the date or the description column
\* is missing, else one row per merchant key, in key order
FeaturesNeedAmount(df) ==
    IF df.cols # AllColumns
    THEN [error |-> "KeyError", rows |-> <<>>]
    ELSE LET x == Prepare(df)
             keys == SortedTexts({x[i].m : i \in 1..Len(x)})
         IN  [error |-> "",
              rows |-> [i \in 1..Len(keys) |->
                           GroupFeatures(keys[i], Group(x, keys[i]))]]
MerchantFeatures(df) ==
    IF "date" \notin df.cols \/ "description" \notin df.cols
    THEN [error |-> "KeyError", rows |-> <<>>]
    ELSE LET x == Prepare(df)
             keys == SortedTexts({x[i].m : i \in 1..Len(x)})
         IN  [error |-> "",
              rows |-> [i \in 1..Len(keys) |->
                           GroupFeatures(keys[i], Group(x, keys[i]))]]

(***************************************************************************)
(* Training: label_from_known and train_subscription_model.                *)
(***************************************************************************)
\* s in m
Contains(m, s) ==
    \E i \in 0..(Len(m) - Len(s)) : SubSeq(m, i + 1, i + Len(s)) = s

SUBS_MERCHANTS == {<<"N", "E", "T", "F", "L", "I", "X">>,
                   <<"S", "P", "O", "T", "I", "F", "Y">>,
                   <<"I", "C", "L", "O", "U", "D">>,
                   <<"C", "I", "T", "Y", " ", "G", "Y", "M">>}

\* the label of one merchant key
LabelIfEqual(m) == IF m \in SUBS_MERCHANTS THEN 1 ELSE 0
LabelFromKnown(m) == IF \E s \in SUBS_MERCHANTS : Contains(m, s) THEN 1 ELSE 0

\* the outcome of a call that raised: nothing fitted, nothing returned
NoModel == [feature_names_in |-> <<>>]
Failure(e, stage) ==
    [error |-> e, stage |-> stage, fit_called |-> FALSE, model |-> NoModel,
     feature_cols |-> <<>>, labels |-> <<>>]

\* y.nunique() < 2
NeverOneClass(y) == FALSE
OneClass(y) == Cardinality({y[i] : i \in 1..Len(y)}) < 2

\* train_test_split(X, y, test_size=0.3, stratify=y): the test part holds
\* ceil(0.3 n) rows; the stratified split raises ValueError when a class
\* has a single member or a part is smaller than the number of classes
TestSizePercent == 30
TestRows(n) == (n * TestSizePercent + 99) \div 100
SplitFails(y) ==
    LET classes == {y[i] : i \in 1..Len(y)}
        members(c) == Cardinality({i \in 1..Len(y) : y[i] = c})
    IN  \/ \E c \in classes : members(c) < 2
        \/ TestRows(Len(y)) < Cardinality(classes)
        \/ Len(y) - TestRows(Len(y)) < Cardinality(classes)

\* line 110: the columns of X, the feature table without "merchant"
FrameColumns == <<"merchant">> \o FeatureColumns
DropColumn(columns, name) == SelectSeq(columns, LAMBDA c : c # name)
\* line 127: list(X.columns), given the columns of X
ReturnedWithMerchant(x_columns) == <<"merchant">> \o x_columns
ReturnedColumns(x_columns) == x_columns

\* lines 111-127, given the feature table and its labels: model.fit is
\* reached only after the guard and the split; a fit on a single class
\* fits the imputer and the scaler and then raises
Labelled(f, y) ==
    [i \in 1..Len(y) |-> [merchant |-> f.rows[i].merchant, label |-> y[i]]]
TrainLabelled(f, y) ==
    IF OneClass(y)
    THEN [Failure("ValueError", "guard") EXCEPT !.labels = Labelled(f, y)]
    ELSE IF SplitFails(y)
    THEN [Failure("ValueError", "split") EXCEPT !.labels = Labelled(f, y)]
    ELSE IF Cardinality({y[i] : i \in 1..Len(y)}) < 2
    THEN [Failure("ValueError", "fit") EXCEPT !.fit_called = TRUE]
    ELSE [error |-> "", stage |-> "returned", fit_called |-> TRUE,
          model |-> [feature_names_in |-> DropColumn(FrameColumns, "merchant")],
          feature_cols |-> ReturnedColumns(DropColumn(FrameColumns, "merchant")),
          labels |-> Labelled(f, y)]
\* lines 109-110, given the feature table: a table without rows has no
\* merchant column
TrainOn(f) ==
    IF f.error # "" THEN Failure(f.error, "features")
    ELSE IF f.rows = <<>> THEN Failure("KeyError", "labels")
    ELSE TrainLabelled(f, [i \in 1..Len(f.rows) |->
                              LabelFromKnown(f.rows[i].merchant)])
\* train_subscription_model: where the call ends, and what it returns
TrainSubscriptionModel(d) == TrainOn(MerchantFeatures(d))

(***************************************************************************)
(* save_model and load_model.  The column file is the JSON text of the     *)
(* list, given by its tokens; the model file is the pickled pipeline.      *)
(***************************************************************************)
JsonToken(t, text) == [t |-> t, s |-> text]
\* json.dump(feature_cols, f): [ "a", "b", ... ]
RECURSIVE JsonItems(_)
JsonItems(names) ==
    IF names = <<>> THEN <<>>
    ELSE IF Len(names) = 1 THEN <<JsonToken("string", names[1])>>
    ELSE <<JsonToken("string", names[1]), JsonToken(",", "")>>
         \o JsonItems(Tail(names))
JsonDump(names) ==
    <<JsonToken("[", "")>> \o JsonItems(names) \o <<JsonToken("]", "")>>
\* json.load(f): the strings between the brackets, in their order
JsonLoad(text) ==
    LET strings == SelectSeq(text, LAMBDA k : k.t = "string")
    IN  [i \in 1..Len(strings) |-> strings[i].s]
\* save_model(model, feature_cols, model_path, cols_path)
SaveModel(model, feature_cols) ==
    [model_path |-> [pickle |-> model], cols_path |-> JsonDump(feature_cols)]
\* load_model(model_path, cols_path)
LoadModel(d) == [model |-> d.model_path.pickle, cols |-> JsonLoad(d.cols_path)]

(***************************************************************************)
(* Scoring: predict_subscriptions.  A loaded model is the column list it   *)
(* was fitted on and its classifier; the classifier is an unknown function *)
(* of a row of X, given here, for the rows of one table, as a function of  *)
(* the merchant a row belongs to.  None is the model that was never        *)
(* loaded, and NoColumns its column list.                                  *)
(***************************************************************************)
None == [feature_names_in |-> <<>>, proba |-> <<>>]
NoColumns == <<>>
PredictFailure(e) == [error |-> e, X |-> [columns |-> <<>>, rows |-> <<>>],
                      out |-> <<>>]

\* out.sort_values("score", ascending=False): rows of equal score keep
\* their order (tables of fewer than sixteen rows are sorted by insertion)
RECURSIVE InsertByScore(_, _)
InsertByScore(sorted, r) ==
    IF sorted = <<>> THEN <<r>>
    ELSE IF FGt(r.score, Head(sorted).score) THEN <<r>> \o sorted
    ELSE <<Head(sorted)>> \o InsertByScore(Tail(sorted), r)
RECURSIVE SortByScore(_)
SortByScore(rows) ==
    IF rows = <<>> THEN <<>>
    ELSE InsertByScore(SortByScore(SubSeq(rows, 1, Len(rows) - 1)),
                       rows[Len(rows)])

\* lines 133-135: X[c] = 0.0 for every saved column X lacks, then
\* X = X[feature_cols]
AlignColumns(f, feature_cols) ==
    LET extracted == {FeatureColumns[j] : j \in 1..Len(FeatureColumns)}
    IN  [columns |-> feature_cols,
         rows |-> [i \in 1..Len(f.rows) |-> [j \in 1..Len(feature_cols) |->
                     IF feature_cols[j] \in extracted
                     THEN f.rows[i][feature_cols[j]] ELSE Zero]]]

\* lines 137-144: the scored table, before it is sorted
Scored(f, model) ==
    [i \in 1..Len(f.rows) |->
        [merchant |-> f.rows[i].merchant,
         score |-> model.proba[f.rows[i].merchant],
         n_occurrences |-> f.rows[i].n_occurrences,
         coverage_months |-> f.rows[i].coverage_months,
         median_gap_days |-> f.rows[i].median_gap_days,
         dom_consistency |-> f.rows[i].dom_consistency,
         amount_mean |-> f.rows[i].amount_mean,
         autocorr_30d |-> f.rows[i].autocorr_30d]]
\* lines 131-145, given the feature table: feats.drop(columns=["merchant"])
\* raises on a table without columns, and the loop over the saved columns
\* on None
PredictOn(f, model, feature_cols) ==
    IF f.error # "" THEN PredictFailure(f.error)
    ELSE IF f.rows = <<>> THEN PredictFailure("KeyError")
    ELSE IF feature_cols = NoColumns THEN PredictFailure("TypeError")
    ELSE [error |-> "", X |-> AlignColumns(f, feature_cols),
          out |-> SortByScore(Scored(f, model))]
\* the model and the column list after the call: lines 133-136 only read
\* them (X is a new frame, the loop iterates over the list)
AfterPredictConsumed(model, feature_cols) ==
    [model |-> model, feature_cols |-> <<>>]
AfterPredictRefit(model, feature_cols) ==
    [model |-> [model EXCEPT !.proba = [k \in DOMAIN model.proba |-> Half]],
     feature_cols |-> feature_cols]
AfterPredict(model, feature_cols) ==
    [model |-> model, feature_cols |-> feature_cols]
\* predict_subscriptions(df_any, model, feature_cols)
PredictSubscriptions(d, model, feature_cols) ==
    PredictOn(MerchantFeatures(d), model, feature_cols)

(***************************************************************************)
(* The cost estimate of get_subscriptions.                                 *)
(***************************************************************************)
\* app.py lines 849-860, on one row of the scored table
MonthlyCostNoFallback(row) ==
    IF row.coverage_months > 0
    THEN FMul(FAbs(row.amount_mean),
              FDiv(FromInt(row.n_occurrences), FromInt(row.coverage_months)))
    ELSE FAbs(row.amount_mean)
MonthlyCost(row) ==
    IF row.coverage_months > 0
    THEN FMul(FAbs(row.amount_mean),
              FDiv(FromInt(row.n_occurrences), FromInt(row.coverage_months)))
    ELSE IF FGt(row.median_gap_days, Zero)
    THEN FMul(FAbs(row.amount_mean), FDiv(FromInt(30), row.median_gap_days))
    ELSE FAbs(row.amount_mean)

\* round(x, 2): the float nearest to x rounded to hundredths, ties to even
Round2(x) ==
    IF x.k # "num" \/ x.m = 0 \/ x.e >= 0 THEN x
    ELSE IF x.e < -24 THEN Zero
    ELSE LET n == 100 * Abs(x.m)
             d == PowerOfTwo[-x.e]
             q == n \div d
             r == n % d
             c == IF 2 * r > d \/ (2 * r = d /\ q % 2 = 1) THEN q + 1 ELSE q
         IN  Rnd(Sign(x.m) * c, 100, 0)

(***************************************************************************)
(* GET /files/{file_id}/subscriptions.  A stored CSV is a table read by    *)
(* pd.read_csv: its column names and, per row, one cell per column.  A     *)
(* cell is what it is read as: as a date, as a text and as a number.       *)
(***************************************************************************)
ToLower == [c \in Letters |-> Lower[CHOOSE i \in 1..26 : Upper[i] = c]]
\* col.lower()
StrLower(s) == [i \in 1..Len(s) |-> IF s[i] \in Letters THEN ToLower[s[i]] ELSE s[i]]

DateKeywords == {<<"d", "a", "t", "e">>, <<"t", "i", "m", "e">>}
DescriptionKeywords == {<<"d", "e", "s", "c", "r", "i", "p", "t", "i", "o", "n">>, <<"m", "e", "r", "c", "h", "a", "n", "t">>, <<"p", "a", "y", "e", "e">>}
AmountKeywords == {<<"a", "m", "o", "u", "n", "t">>, <<"d", "e", "b", "i", "t">>, <<"c", "r", "e", "d", "i", "t">>, <<"v", "a", "l", "u", "e">>}
\* any(keyword in col.lower() for keyword in keywords)
HasKeyword(col, keywords) == \E k \in keywords : Contains(StrLower(col), k)
\* the column a loop without break ends on, and the one a loop with break
\* stops at (0: none)
LastMatch(columns, keywords) ==
    LET hits == {j \in 1..Len(columns) : HasKeyword(columns[j], keywords)}
    IN  IF hits = {} THEN 0 ELSE CHOOSE j \in hits : \A h \in hits : h <= j
FirstMatch(columns, keywords) ==
    LET hits == {j \in 1..Len(columns) : HasKeyword(columns[j], keywords)}
    IN  IF hits = {} THEN 0 ELSE CHOOSE j \in hits : \A h \in hits : j <= h

NoBody == [total_subscriptions |-> 0, total_monthly_cost |-> Zero,
           expense_transactions_analyzed |-> 0, subscriptions |-> <<>>]
HttpError(status, detail) == [status |-> status, detail |-> detail, body |-> NoBody]

\* lines 819-836: the table handed to the scorer
ExpenseRowsUnfiltered(csv, date_col, description_col, amount_col) ==
    [i \in 1..Len(csv.rows) |->
        [date |-> csv.rows[i][date_col].date,
         description |-> csv.rows[i][description_col].text,
         amount |-> IF amount_col # 0
                    THEN ToNumeric(csv.rows[i][amount_col].number)
                    ELSE Zero]]
ExpenseRows(csv, date_col, description_col, amount_col) ==
    LET df_sub == [i \in 1..Len(csv.rows) |->
                     [date |-> csv.rows[i][date_col].date,
                      description |-> csv.rows[i][description_col].text,
                      amount |-> IF amount_col # 0
                                 THEN ToNumeric(csv.rows[i][amount_col].number)
                                 ELSE Zero]]
    IN  SelectSeq(df_sub, LAMBDA r : FLe(r.amount, Zero))

\* lines 845-873: the rows at or above the threshold, with their cost
SubscriptionListAbove(out, threshold) ==
    LET high == SelectSeq(out, LAMBDA r : FGt(r.score, threshold))
    IN  [i \in 1..Len(high) |->
            [merchant |-> high[i].merchant,
             subscription_score |-> high[i].score,
             occurrences |-> high[i].n_occurrences,
             coverage_months |-> high[i].coverage_months,
             median_gap_days |-> high[i].median_gap_days,
             day_consistency |-> high[i].dom_consistency,
             average_amount |-> high[i].amount_mean,
             average_monthly_cost |-> Round2(MonthlyCost(high[i])),
             autocorrelation_30d |-> high[i].autocorr_30d]]
SubscriptionList(out, threshold) ==
    LET high == SelectSeq(out, LAMBDA r : FGe(r.score, threshold))
    IN  [i \in 1..Len(high) |->
            [merchant |-> high[i].merchant,
             subscription_score |-> high[i].score,
             occurrences |-> high[i].n_occurrences,
             coverage_months |-> high[i].coverage_months,
             median_gap_days |-> high[i].median_gap_days,
             day_consistency |-> high[i].dom_consistency,
             average_amount |-> high[i].amount_mean,
             average_monthly_cost |-> Round2(MonthlyCost(high[i])),
             autocorrelation_30d |-> high[i].autocorr_30d]]

\* lines 875-888: the body of the answer
AnswerBody(list, n_expenses) ==
    [total_subscriptions |-> Len(list),
     total_monthly_cost |->
         Round2(FSum([i \in 1..Len(list) |-> list[i].average_monthly_cost])),
     expense_transactions_analyzed |-> n_expenses,
     subscriptions |-> list]
\* lines 845-888: the answer, given the scorer's outcome
Answer(subs, n_expenses, threshold) ==
    IF subs.error # "" THEN HttpError(500, subs.error)
    ELSE [status |-> 200, detail |-> "",
          body |-> AnswerBody(SubscriptionList(subs.out, threshold), n_expenses)]
\* lines 819-843, given the columns found
ScoreExpenses(expenses, model, feature_cols, threshold) ==
    IF Len(expenses) = 0
    THEN HttpError(500, "400: No expense transactions found")
    ELSE Answer(PredictSubscriptions([cols |-> AllColumns, rows |-> expenses],
                                     model, feature_cols),
                Len(expenses), threshold)
WithColumns(csv, date_col, description_col, amount_col, model, feature_cols, threshold) ==
    IF date_col = 0 \/ description_col = 0
    THEN HttpError(500, "400: Could not find date or description columns")
    ELSE ScoreExpenses(ExpenseRows(csv, date_col, description_col, amount_col),
                       model, feature_cols, threshold)
\* lines 802-892: the body of the try, an exception raised inside it (the
\* two HTTPException(400) included) leaving as a 500
TrySubscriptions(csv, model, feature_cols, threshold) ==
    IF csv.columns = <<>> THEN HttpError(500, "EmptyDataError") ELSE
    WithColumns(csv, LastMatch(csv.columns, DateKeywords),
                LastMatch(csv.columns, DescriptionKeywords),
                FirstMatch(csv.columns, AmountKeywords),
                model, feature_cols, threshold)

\* if not SUBSCRIPTION_MODEL_LOADED
NeverUnavailable(loaded) == FALSE
ModelUnavailable(loaded) == ~loaded

\* line 843: the call of predict_subscriptions a request makes, if it makes
\* one: none before the file and the model are there (795-800), none
\* without date and description columns (816-817), none without an
\* expense row (838-840)
CallWith(expenses) ==
    IF Len(expenses) = 0 THEN [called |-> FALSE, rows |-> <<>>]
    ELSE [called |-> TRUE, rows |-> expenses]
CallWithColumns(csv, date_col, description_col, amount_col) ==
    IF date_col = 0 \/ description_col = 0
    THEN [called |-> FALSE, rows |-> <<>>]
    ELSE CallWith(ExpenseRows(csv, date_col, description_col, amount_col))
ScorerCall(files, loaded, file_id) ==
    IF file_id \notin DOMAIN files \/ ModelUnavailable(loaded)
    THEN [called |-> FALSE, rows |-> <<>>]
    ELSE CallWithColumns(files[file_id],
                         LastMatch(files[file_id].columns, DateKeywords),
                         LastMatch(files[file_id].columns, DescriptionKeywords),
                         FirstMatch(files[file_id].columns, AmountKeywords))

\* get_subscriptions(file_id, threshold), given the stored files
GetSubscriptionsResponse(files, loaded, model, feature_cols, file_id, threshold) ==
    IF file_id \notin DOMAIN files THEN HttpError(404, "File not found")
    ELSE IF ModelUnavailable(loaded)
    THEN HttpError(503, "Subscription model not loaded")
    ELSE TrySubscriptions(files[file_id], model, feature_cols, threshold)

\* all texts over an alphabet, up to a length
RECURSIVE TextsOfLen(_, _)
TextsOfLen(A, n) ==
    IF n = 0 THEN {<<>>}
    ELSE {<<c>> \o t : c \in A, t \in TextsOfLen(A, n - 1)}
Texts(A, n) == UNION {TextsOfLen(A, i) : i \in 0..n}

VARIABLES
    pc,         \* the step the current call has reached
    desc,       \* normaliser: the description given
    key,        \* normaliser: _norm_merchant(desc)
    rekey,      \* normaliser: _norm_merchant(key)
    df,         \* the transaction table given to a call
    feats,      \* merchant_features(df)
    trained,    \* the outcome of train_subscription_model(df)
    model,      \* scoring: the model given to predict_subscriptions
    feature_cols,   \* scoring: the column list given with it
    pred,       \* the outcome of predict_subscriptions(df, model, feature_cols)
    row,        \* cost estimate: the scored row
    cost,       \* cost estimate: avg_monthly_cost and its rounded report
    ML_MODEL_LOADED,
    SUBSCRIPTION_MODEL_LOADED,
    SUBSCRIPTION_MODEL,
    SUBSCRIPTION_FEATURE_COLS,
    files,      \* the CSVs of the upload directory, by file id
    request,    \* the last request, when it was for the data of a file
    response,   \* the answer to it
    call,       \* the table the request handed to predict_subscriptions
    answers,    \* the first answer to each request answered so far
    registry,   \* file_hashes.json: the entry of each registered hash
    issued,     \* the file ids issued so far
    clock,      \* the time of the last upload
    upload,     \* the last request, when it was an upload or a delete
    disk,       \* the model file and the column file written by save_model
    reloaded,   \* what load_model returned
    neighbors,  \* knn_predict: the labels and similarities of the neighbours
    knn,        \* knn_predict: the buckets, the winner and what is returned
    shuffled,   \* the rows of df in another order
    refeats     \* merchant_features(shuffled)

normVars == <<desc, key, rekey>>
featVars == <<df, feats>>
trainVars == <<trained, disk, reloaded>>
predVars == <<model, feature_cols, pred>>
costVars == <<row, cost>>
knnVars == <<neighbors, knn>>
permVars == <<shuffled, refeats>>
globals == <<ML_MODEL_LOADED, SUBSCRIPTION_MODEL_LOADED, SUBSCRIPTION_MODEL,
             SUBSCRIPTION_FEATURE_COLS>>
uploadVars == <<registry, issued, clock, upload>>
serviceVars == <<globals, files, request, response, call, answers, uploadVars>>
vars == <<pc, normVars, featVars, trainVars, predVars, costVars, knnVars, permVars,
          serviceVars>>

NoTable == [cols |-> {}, rows |-> <<>>]
NoFeatures == [error |-> "", rows |-> <<>>]
NoTraining == Failure("", "")
NoPrediction == PredictFailure("")
NoRow == [amount_mean |-> Zero, n_occurrences |-> 0, coverage_months |-> 0,
          median_gap_days |-> Zero]
NoCost == [avg_monthly_cost |-> Zero, average_monthly_cost |-> Zero]
NoFiles == <<>>
NoRequest == [file_id |-> "", threshold |-> Zero]
NoResponse == HttpError(0, "")

IdleNorm == desc = <<>> /\ key = <<>> /\ rekey = <<>>
IdleFeat == df = NoTable /\ feats = NoFeatures
NoDisk == [model_path |-> [pickle |-> NoModel], cols_path |-> <<>>]
NoReload == [model |-> NoModel, cols |-> <<>>]
IdleTrain == trained = NoTraining /\ disk = NoDisk /\ reloaded = NoReload
IdlePredict == model = None /\ feature_cols = NoColumns /\ pred = NoPrediction
IdleCost == row = NoRow /\ cost = NoCost
NoNeighbors == [labels |-> <<>>, sims |-> <<>>, threshold |-> Zero]
NoVote == [buckets |-> <<>>, best_label |-> "", label |-> "", confidence |-> Zero]
IdleKnn == neighbors = NoNeighbors /\ knn = NoVote
IdlePerm == shuffled = NoTable /\ refeats = NoFeatures
\* app.py lines 63-72: the globals as the module sets them
InitGlobals ==
    /\ ML_MODEL_LOADED = FALSE
    /\ SUBSCRIPTION_MODEL_LOADED = FALSE
    /\ SUBSCRIPTION_MODEL = None
    /\ SUBSCRIPTION_FEATURE_COLS = NoColumns
NoCall == [called |-> FALSE, rows |-> <<>>]
NoAnswers == <<>>
NoRegistry == <<>>
NoContent == [utf8 |-> TRUE, parse |-> "", csv |-> [columns |-> <<>>, rows |-> <<>>]]
NoUpload == [op |-> "", content |-> NoContent, filename |-> <<>>,
             status |-> 0, file_id |-> "", is_duplicate |-> FALSE]
IdleUpload == registry = NoRegistry /\ issued = {} /\ clock = 0 /\ upload = NoUpload
IdleService ==
    /\ InitGlobals
    /\ files = NoFiles /\ request = NoRequest /\ response = NoResponse
    /\ call = NoCall /\ answers = NoAnswers /\ IdleUpload

(***************************************************************************)
(* The merchant normaliser on every short description.                     *)
(***************************************************************************)
DescAlphabet == {"n", "N", "7", "&", "+", "'", " ", "\t", "-"}

InitNorm ==
    /\ pc = "input"
    /\ desc \in Texts(DescAlphabet, MaxLen)
    /\ key = <<>>
    /\ rekey = <<>>
    /\ IdleFeat /\ IdleTrain /\ IdleKnn /\ IdlePerm /\ IdlePredict /\ IdleCost /\ IdleService

\* x["_m"] = _norm_merchant(x["description"])
Normalize ==
    /\ pc = "input"
    /\ key' = NormMerchant(desc)
    /\ pc' = "normalized"
    /\ UNCHANGED <<desc, rekey, featVars, trainVars, predVars, costVars, knnVars, permVars, serviceVars>>

\* the normaliser applied to a key it produced
NormalizeAgain ==
    /\ pc = "normalized"
    /\ rekey' = NormMerchant(key)
    /\ pc' = "renormalized"
    /\ UNCHANGED <<desc, key, featVars, trainVars, predVars, costVars, knnVars, permVars, serviceVars>>

NextNorm == Normalize \/ NormalizeAgain
SpecNorm == InitNorm /\ [][NextNorm]_vars

\* C2: normalising a normalised key returns it unchanged:
\* _norm_merchant(_norm_merchant(x)) = _norm_merchant(x) for every x.
C2_Idempotent == pc = "renormalized" => rekey = key
\* a description whose key differs from it has been normalised twice
C2_Witness == pc = "renormalized" /\ key # desc /\ key # <<>>

\* The key as the claim C3 describes it: uppercase, whitespace runs
\* collapsed, everything but letters, & ' and space removed.
ClaimedKept == Letters \cup {"&", "'", " "}
ClaimedKey(s) ==
    SelectSeq(CollapseWs(StrUpper(s)), LAMBDA c : c \in ClaimedKept)
Count(s, c) == Cardinality({i \in 1..Len(s) : s[i] = c})

\* C3 as stated: the key is the uppercased input with whitespace collapsed
\* and only letters, & ' and space kept; it holds no digit and no +, and
\* keeps the input's apostrophes.
C3_AsStated ==
    pc = "normalized" =>
        /\ key = ClaimedKey(desc)
        /\ \A i \in 1..Len(key) : key[i] \notin Digits \cup {"+"}
        /\ Count(key, "'") = Count(desc, "'")

\* the pieces of s between its space characters (str.split(" "))
RECURSIVE SplitSpace(_)
SplitSpace(s) ==
    IF \A i \in 1..Len(s) : s[i] # " " THEN <<s>>
    ELSE LET j == CHOOSE i \in 1..Len(s) :
                      s[i] = " " /\ \A h \in 1..(i - 1) : s[h] # " "
         IN  <<SubSeq(s, 1, j - 1)>> \o SplitSpace(SubSeq(s, j + 1, Len(s)))
RECURSIVE JoinSpace(_)
JoinSpace(ws) ==
    IF ws = <<>> THEN <<>>
    ELSE IF Len(ws) = 1 THEN ws[1]
    ELSE ws[1] \o <<" ">> \o JoinSpace(Tail(ws))
KeyWord(w) == SelectSeq(StrUpper(w), LAMBDA c : c \in Letters \cup Digits \cup {"&", "+"})
KeyWords(s) ==
    SelectSeq([i \in 1..Len(SplitSpace(s)) |-> KeyWord(SplitSpace(s)[i])],
              LAMBDA w : w # <<>>)

\* C3 amended: the key is the space-joined sequence of the non-empty words
\* of the input, a word being a maximal space-free piece of the uppercased
\* input reduced to its characters in A-Z, 0-9, & and +.  Digits and + are
\* kept; apostrophes and whitespace other than the space are removed.
C3_Key ==
    pc = "normalized" =>
        /\ key = JoinSpace(KeyWords(desc))
        /\ \A i \in 1..Len(key) : key[i] \in KeptChars
        /\ Count(key, "'") = 0
        /\ Count(key, "+") = Count(desc, "+")
        /\ Count(key, "7") = Count(desc, "7")
\* a description with a digit, a + or an apostrophe has been normalised
C3_Witness ==
    /\ pc = "normalized"
    /\ Count(desc, "7") > 0 /\ Count(desc, "+") > 0 /\ Count(desc, "'") > 0

(***************************************************************************)
(* The feature extractor on every small transaction table.                 *)
(***************************************************************************)
\* an amount that fills the significand, one that does not, no number
FullAmount == Rnd(1 - MantHi, 1, 2 - FloatBits)
FeatDates == {Date(1, 5), Date(1, 20), Date(2, 5)}
FeatAmounts == {FullAmount, FromInt(-1), Zero, NotANumber}
FeatRows ==
    [date : FeatDates, description : {<<"n", "f">>}, amount : FeatAmounts]
    \cup [date : {Date(1, 5), Date(2, 5)}, description : {<<"g", "+">>},
          amount : {FromInt(-1)}]

InitFeat ==
    /\ pc = "input"
    /\ \E n \in 0..MaxTx :
          df \in [cols : {AllColumns}, rows : [1..n -> FeatRows]]
    /\ feats = NoFeatures
    /\ IdleNorm /\ IdleTrain /\ IdleKnn /\ IdlePerm /\ IdlePredict /\ IdleCost /\ IdleService

\* feats = merchant_features(df)
Extract ==
    /\ pc = "input"
    /\ feats' = MerchantFeatures(df)
    /\ df' = CallerTable(df)
    /\ pc' = "extracted"
    /\ UNCHANGED <<normVars, trainVars, predVars, costVars, knnVars, permVars, serviceVars>>

NextFeat == Extract
SpecFeat == InitFeat /\ [][NextFeat]_vars

FloatValues(r) == {r[c] : c \in FloatColumns}
FeatureRows == {feats.rows[i] : i \in 1..Len(feats.rows)}

\* C1: every numeric field of every row merchant_features returns is
\* finite (neither NaN nor an infinity), for every table.
C1_AllFinite ==
    pc = "extracted" =>
        \A r \in FeatureRows : \A v \in FloatValues(r) : IsFinite(v)

\* the usable rows of df (a parseable date, a description) with key m
RowsOfKey(m) ==
    {i \in 1..Len(df.rows) :
        /\ ToDatetime(df.rows[i].date) # NaT
        /\ df.rows[i].description # NullText
        /\ NormMerchant(df.rows[i].description) = m}
KeysOfTable == {NormMerchant(df.rows[i].description) : i \in 1..Len(df.rows)}

\* C9: a merchant with exactly one transaction gets one feature row, with
\* n_occurrences = 1, coverage_months = 1, median_gap_days = 0,
\* gap_cv = 1.0, dom_consistency = 1.0 and span_days = 0.
C9_SingleTransaction ==
    pc = "extracted" =>
        \A m \in KeysOfTable : Cardinality(RowsOfKey(m)) = 1 =>
            /\ Cardinality({r \in FeatureRows : r.merchant = m}) = 1
            /\ \A r \in FeatureRows : r.merchant = m =>
                /\ r.n_occurrences = 1
                /\ r.coverage_months = 1
                /\ r.median_gap_days = Zero
                /\ r.gap_cv = One
                /\ r.dom_consistency = One
                /\ r.span_days = 0
\* a table with a one-transaction merchant beside a merchant with several
C9_Witness ==
    /\ pc = "extracted"
    /\ \E m \in KeysOfTable : Cardinality(RowsOfKey(m)) = 1
    /\ \E m \in KeysOfTable : Cardinality(RowsOfKey(m)) > 1

(***************************************************************************)
(* The feature extractor on one merchant charged the same amount on the    *)
(* same day of k consecutive months.                                       *)
(***************************************************************************)
MonthlyAmounts == {FullAmount, FromInt(-1), Rnd(-199, 100, 0), FromInt(15), Zero}
MonthlyDays == {1, 5, 28}
\* the charges of months first..(first + k - 1), oldest first
MonthlyRows(first, k, dom, amount) ==
    [i \in 1..k |-> [date |-> Date(first + i - 1, dom),
                     description |-> <<"n", "f">>, amount |-> amount]]
Reverse(s) == [i \in 1..Len(s) |-> s[Len(s) + 1 - i]]

InitMonthly ==
    /\ pc = "input"
    /\ \E k \in 2..MaxMonths, first \in 1..(12 - MaxMonths), dom \in MonthlyDays,
          amount \in MonthlyAmounts :
          LET rows == MonthlyRows(first, k, dom, amount)
          IN  df \in [cols : {AllColumns}, rows : {rows, Reverse(rows)}]
    /\ feats = NoFeatures
    /\ IdleNorm /\ IdleTrain /\ IdleKnn /\ IdlePerm /\ IdlePredict /\ IdleCost /\ IdleService

SpecMonthly == InitMonthly /\ [][NextFeat]_vars

\* the number of charges, and the only feature row
Charges == Len(df.rows)
MonthlyRow == feats.rows[1]

\* C10 as stated: k monthly charges of one amount on one day of the month
\* give n_occurrences = k, coverage_months = k, dom_consistency = 1.0,
\* amount_cv = 0 and amount_iqr_ratio = 0.
C10_AsStated ==
    pc = "extracted" =>
        /\ Len(feats.rows) = 1
        /\ MonthlyRow.n_occurrences = Charges
        /\ MonthlyRow.coverage_months = Charges
        /\ MonthlyRow.dom_consistency = One
        /\ MonthlyRow.amount_cv = Zero
        /\ MonthlyRow.amount_iqr_ratio = Zero

\* C10 amended: k monthly charges of one amount on one day of the month
\* give n_occurrences = k, coverage_months = k, dom_consistency = 1.0 and
\* amount_iqr_ratio = 0; amount_cv is 0 only up to the rounding of the mean:
\* 0 <= amount_cv <= k * 2^(1 - FloatBits).
C10_Monthly ==
    pc = "extracted" =>
        /\ Len(feats.rows) = 1
        /\ MonthlyRow.n_occurrences = Charges
        /\ MonthlyRow.coverage_months = Charges
        /\ MonthlyRow.dom_consistency = One
        /\ FLe(Zero, MonthlyRow.amount_cv)
        /\ FLe(MonthlyRow.amount_cv, Rnd(Charges, 1, 1 - FloatBits))
        /\ MonthlyRow.amount_iqr_ratio = Zero
\* three or more charges have been extracted, and the mean was not exact
C10_Witness ==
    /\ pc = "extracted"
    /\ Charges >= 3
    /\ MonthlyRow.amount_mean # df.rows[1].amount
    /\ MonthlyRow.amount_cv # Zero
\* the same charges with an exact mean
C10_ExactWitness ==
    /\ pc = "extracted"
    /\ Charges >= 3
    /\ MonthlyRow.amount_cv = Zero
    /\ MonthlyRow.amount_mean # Zero

(***************************************************************************)
(* Training on small corpora, with any subset of the three columns.        *)
(***************************************************************************)
MaxCharges == 2     \* most transactions of one merchant in a corpus
TrainDescriptions == <<<<"n", "e", "t", "f", "l", "i", "x">>,
                       <<"C", "i", "t", "y", " ", " ", "G", "y", "m", " ", "7">>,
                       <<"c", "a", "f", "e">>,
                       <<"g", "a", "s", "+">>,
                       <<"c", "i", "t", "y", "g", "y", "m">>>>
\* counts[i] charges of merchant i, a month apart, for every i from from on
RECURSIVE TrainRows(_, _)
TrainRows(counts, from) ==
    IF from > Len(TrainDescriptions) THEN <<>>
    ELSE [j \in 1..counts[from] |->
             [date |-> Date(j, 5), description |-> TrainDescriptions[from],
              amount |-> FromInt(-1)]]
         \o TrainRows(counts, from + 1)

InitTrain ==
    /\ pc = "input"
    /\ \E cols \in SUBSET AllColumns,
          counts \in [1..Len(TrainDescriptions) -> 0..MaxCharges] :
          df = [cols |-> cols, rows |-> TrainRows(counts, 1)]
    /\ feats = NoFeatures
    /\ IdleNorm /\ IdleTrain /\ IdleKnn /\ IdlePerm /\ IdlePredict /\ IdleCost /\ IdleService

\* model, cols = train_subscription_model(df)
Train ==
    /\ pc = "input"
    /\ trained' = TrainSubscriptionModel(df)
    /\ pc' = "trained"
    /\ UNCHANGED <<disk, reloaded>>
    /\ UNCHANGED <<normVars, featVars, predVars, costVars, knnVars, permVars, serviceVars>>

\* save_model(model, cols, ...) on what training returned
Save ==
    /\ pc = "trained" /\ trained.error = ""
    /\ disk' = SaveModel(trained.model, trained.feature_cols)
    /\ pc' = "saved"
    /\ UNCHANGED <<trained, reloaded>>
    /\ UNCHANGED <<normVars, featVars, predVars, costVars, knnVars, permVars, serviceVars>>
\* model, cols = load_model(...)
Load ==
    /\ pc = "saved"
    /\ reloaded' = LoadModel(disk)
    /\ pc' = "loaded"
    /\ UNCHANGED <<trained, disk>>
    /\ UNCHANGED <<normVars, featVars, predVars, costVars, knnVars, permVars, serviceVars>>

NextTrain == Train \/ Save \/ Load
SpecTrain == InitTrain /\ [][NextTrain]_vars

\* the labels of the corpus, from its rows
CorpusLabels ==
    {LabelFromKnown(NormMerchant(df.rows[i].description)) : i \in 1..Len(df.rows)}
WithoutAmounts ==
    [cols |-> AllColumns,
     rows |-> [i \in 1..Len(df.rows) |-> [df.rows[i] EXCEPT !.amount = NotANumber]]]

\* C7: when the labels of the corpus hold fewer than two classes,
\* train_subscription_model raises, before any fit and without a model;
\* with exactly one class it is the ValueError of the guard.
C7_OneClassRaises ==
    (pc = "trained" /\ {"date", "description"} \subseteq df.cols
        /\ Cardinality(CorpusLabels) < 2) =>
        /\ trained.error # ""
        /\ ~trained.fit_called
        /\ trained.model = NoModel /\ trained.feature_cols = <<>>
        /\ Cardinality(CorpusLabels) = 1 =>
               trained.error = "ValueError" /\ trained.stage = "guard"
\* a corpus of several merchants, none of them a known subscription
C7_Witness ==
    /\ pc = "trained" /\ df.cols = AllColumns
    /\ CorpusLabels = {0}
    /\ Cardinality({df.rows[i].description : i \in 1..Len(df.rows)}) >= 2
    /\ trained.stage = "guard"

\* C8 as stated: training raises whenever date, description or amount is
\* missing from the input, and never reaches a fit without one of them.
C8_AsStated ==
    (pc = "trained" /\ df.cols # AllColumns) =>
        trained.error # "" /\ ~trained.fit_called

\* C8 amended: training raises KeyError, before anything else, when date
\* or description is missing.  A missing amount column is no error: the
\* call ends as it does on the same rows with an amount column that holds
\* no number, and fits a model when the labels allow it.
C8_Schema ==
    pc = "trained" =>
        /\ ("date" \notin df.cols \/ "description" \notin df.cols) =>
               trained = Failure("KeyError", "features")
        /\ df.cols = {"date", "description"} =>
               trained = TrainSubscriptionModel(WithoutAmounts)
\* a corpus without amount column on which a model was fitted and returned
C8_Witness ==
    /\ pc = "trained"
    /\ df.cols = {"date", "description"}
    /\ trained.error = "" /\ trained.fit_called
    /\ trained.feature_cols = FeatureColumns

Occurs(s, m) == \E a \in 1..(Len(m) + 1), b \in 0..Len(m) : SubSeq(m, a, b) = s
\* C17: a merchant is labelled 1 exactly when its normalized key holds
\* NETFLIX, SPOTIFY, ICLOUD or CITY GYM as a substring, 0 otherwise; the
\* labelled merchants are the keys of the corpus.
C17_Labels ==
    (pc = "trained" /\ trained.stage \in {"guard", "split", "returned"}) =>
        /\ {trained.labels[i].merchant : i \in 1..Len(trained.labels)}
               = {NormMerchant(df.rows[i].description) : i \in 1..Len(df.rows)}
        /\ \A i \in 1..Len(trained.labels) :
              /\ trained.labels[i].label \in {0, 1}
              /\ trained.labels[i].label = 1 <=>
                    \E s \in {<<"N", "E", "T", "F", "L", "I", "X">>,
                               <<"S", "P", "O", "T", "I", "F", "Y">>,
                               <<"I", "C", "L", "O", "U", "D">>,
                               <<"C", "I", "T", "Y", " ", "G", "Y", "M">>} :
                        Occurs(s, trained.labels[i].merchant)
\* a corpus in which "CITY GYM 7" is labelled 1 and "CITYGYM" 0
C17_Witness ==
    /\ pc = "trained" /\ trained.stage = "returned"
    /\ \E i \in 1..Len(trained.labels) :
          /\ trained.labels[i].merchant = <<"C", "I", "T", "Y", " ", "G", "Y", "M", " ", "7">>
          /\ trained.labels[i].label = 1
    /\ \E i \in 1..Len(trained.labels) :
          /\ trained.labels[i].merchant = <<"C", "I", "T", "Y", "G", "Y", "M">>
          /\ trained.labels[i].label = 0

(***************************************************************************)
(* Scoring small tables with a saved model and its column list.            *)
(***************************************************************************)
ScoreLevels == {Rnd(1, 4, 0), Rnd(3, 4, 0)}
ModelKeys == {<<"N", "F">>, <<"G", "+">>}
\* the saved lists: the training columns, the same reversed, and a list
\* from another feature set
SavedColumnLists ==
    {FeatureColumns, Reverse(FeatureColumns),
     <<"gap_cv", "legacy_score", "n_occurrences">>}
SavedModels ==
    [feature_names_in : SavedColumnLists, proba : [ModelKeys -> ScoreLevels]]
\* rows of two merchants, one of them without a date
PredictRows ==
    {[date |-> Date(1, 5), description |-> <<"n", "f">>, amount |-> FromInt(-1)],
     [date |-> Date(1, 20), description |-> <<"n", "f">>, amount |-> FullAmount],
     [date |-> NaT, description |-> <<"n", "f">>, amount |-> FromInt(-1)],
     [date |-> Date(1, 5), description |-> <<"g", "+">>, amount |-> FromInt(-1)],
     [date |-> Date(2, 5), description |-> <<"g", "+">>, amount |-> NotANumber]}

InitPredict ==
    /\ pc = "input"
    /\ \E n \in 0..MaxTx :
          df \in [cols : {AllColumns}, rows : [1..n -> PredictRows]]
    /\ model \in SavedModels
    /\ feature_cols = model.feature_names_in
    /\ feats = NoFeatures /\ pred = NoPrediction
    /\ IdleNorm /\ IdleTrain /\ IdleKnn /\ IdlePerm /\ IdleCost /\ IdleService

\* out = predict_subscriptions(df, model, feature_cols)
Predict ==
    /\ pc = "input"
    /\ pred' = PredictSubscriptions(df, model, feature_cols)
    /\ model' = AfterPredict(model, feature_cols).model
    /\ feature_cols' = AfterPredict(model, feature_cols).feature_cols
    /\ df' = CallerTable(df)
    /\ pc' = "predicted"
    /\ UNCHANGED <<normVars, feats, trainVars, costVars, knnVars, permVars, serviceVars>>

NextPredict == Predict \/ Extract
SpecPredict == InitPredict /\ [][NextPredict]_vars

ExtractedColumns == {FeatureColumns[j] : j \in 1..Len(FeatureColumns)}
\* the matrix given to the classifier has the saved columns in the saved
\* order, 0.0 in every saved column the extractor does not produce, and
\* the extracted value elsewhere
Aligned ==
    LET f == MerchantFeatures(df)
    IN  /\ pred.X.columns = feature_cols
        /\ Len(pred.X.rows) = Len(f.rows)
        /\ \A i \in 1..Len(pred.X.rows) :
              /\ Len(pred.X.rows[i]) = Len(feature_cols)
              /\ \A j \in 1..Len(feature_cols) :
                    IF feature_cols[j] \in ExtractedColumns
                    THEN pred.X.rows[i][j] = f.rows[i][feature_cols[j]]
                    ELSE pred.X.rows[i][j] = Zero

\* C5: for every table and every saved column list, scoring does not fail,
\* the classifier is given exactly the saved columns in the saved order
\* (0.0 in the ones the extractor lacks, the others dropped), and there is
\* one score per merchant.
C5_AlignedAndScored ==
    pc = "predicted" =>
        /\ pred.error = ""
        /\ Aligned
        /\ Len(pred.X.rows) = Len(pred.out)
\* what holds of the tables with at least one usable row: the same, and the
\* scored merchants are distinct
C5_WhenScored ==
    (pc = "predicted" /\ pred.error = "") =>
        /\ Aligned
        /\ Len(pred.X.rows) = Len(pred.out)
        /\ Len(pred.out) = Cardinality({pred.out[i].merchant : i \in 1..Len(pred.out)})

\* the merchant keys of the rows of df that have a date and a description
UsableKeys ==
    {NormMerchant(df.rows[i].description) :
        i \in {j \in 1..Len(df.rows) : /\ ToDatetime(df.rows[j].date) # NaT
                                       /\ df.rows[j].description # NullText}}
\* one scored row per usable merchant key, by score non-increasing, each
\* with the statistics of its own merchant
OnePerKeySorted ==
    LET f == MerchantFeatures(df)
    IN  /\ {pred.out[i].merchant : i \in 1..Len(pred.out)} = UsableKeys
        /\ Len(pred.out) = Cardinality(UsableKeys)
        /\ \A i \in 1..(Len(pred.out) - 1) :
              FGe(pred.out[i].score, pred.out[i + 1].score)
        /\ \A i \in 1..Len(pred.out) :
              /\ pred.out[i].score = model.proba[pred.out[i].merchant]
              /\ \E j \in 1..Len(f.rows) :
                    /\ f.rows[j].merchant = pred.out[i].merchant
                    /\ f.rows[j].n_occurrences = pred.out[i].n_occurrences
                    /\ f.rows[j].coverage_months = pred.out[i].coverage_months
                    /\ f.rows[j].median_gap_days = pred.out[i].median_gap_days
                    /\ f.rows[j].dom_consistency = pred.out[i].dom_consistency
                    /\ f.rows[j].amount_mean = pred.out[i].amount_mean

\* C11: predict_subscriptions returns, for every table, exactly one row per
\* distinct merchant key, ordered by score non-increasing, each row with
\* the statistics of the merchant its score belongs to.
C11_OnePerKeySorted ==
    pc = "predicted" => (pred.error = "" /\ OnePerKeySorted)
\* what holds of the calls that return: the tables with a usable row
C11_WhenScored ==
    (pc = "predicted" /\ pred.error = "") => OnePerKeySorted

C19_ExtractedWitness ==
    /\ pc = "extracted" /\ feats.error = ""
    /\ \E i \in 1..Len(df.rows) : df.rows[i].date = NaT
    /\ Len(feats.rows) > 0

(***************************************************************************)
(* The cost estimate on rows of every shape, the ones the extractor never  *)
(* produces (coverage_months = 0) included.                                *)
(***************************************************************************)
CostAmounts == {FromInt(-15), FullAmount, Zero, Rnd(999, 100, 0), NaN}
CostRows ==
    [amount_mean : CostAmounts, n_occurrences : {1, 6, 7},
     coverage_months : {0, 1, 6},
     median_gap_days : {Zero, FromInt(7), FromInt(15), FromInt(30)}]

InitCost ==
    /\ pc = "input"
    /\ row \in CostRows
    /\ cost = NoCost
    /\ IdleNorm /\ IdleFeat /\ IdleTrain /\ IdleKnn /\ IdlePerm /\ IdlePredict /\ IdleService

\* app.py lines 849-860 and 871, for one row
EstimateCost ==
    /\ pc = "input"
    /\ cost' = [avg_monthly_cost |-> MonthlyCost(row),
                average_monthly_cost |-> Round2(MonthlyCost(row))]
    /\ pc' = "estimated"
    /\ UNCHANGED <<normVars, featVars, trainVars, predVars, row, knnVars, permVars, serviceVars>>

NextCost == EstimateCost
SpecCost == InitCost /\ [][NextCost]_vars

\* C6: the estimate is |amount_mean| * (n_occurrences / coverage_months)
\* when coverage_months > 0, else |amount_mean| * (30 / median_gap_days)
\* when median_gap_days > 0, else |amount_mean|; (-15, 6, 6) gives 15.0 and
\* coverage 0 with a gap of 15 gives 30.0; it is a float, never negative.
C6_MonthlyCost ==
    pc = "estimated" =>
        LET a == FAbs(row.amount_mean)
            est == cost.avg_monthly_cost
        IN  /\ row.coverage_months > 0 =>
                   est = FMul(a, FDiv(FromInt(row.n_occurrences),
                                      FromInt(row.coverage_months)))
            /\ (row.coverage_months = 0 /\ FGt(row.median_gap_days, Zero)) =>
                   est = FMul(a, FDiv(FromInt(30), row.median_gap_days))
            /\ (row.coverage_months = 0 /\ ~FGt(row.median_gap_days, Zero)) =>
                   est = a
            /\ (row.amount_mean = FromInt(-15) /\ row.n_occurrences = 6
                    /\ row.coverage_months = 6) => est = FromInt(15)
            /\ (row.amount_mean = FromInt(-15) /\ row.coverage_months = 0
                    /\ row.median_gap_days = FromInt(15)) => est = FromInt(30)
            /\ est.k \in {"num", "nan", "inf"}
            /\ ~FLt(est, Zero)
\* the second example of the claim has been estimated
C6_Witness ==
    /\ pc = "estimated"
    /\ row.amount_mean = FromInt(-15) /\ row.coverage_months = 0
    /\ row.median_gap_days = FromInt(15)
    /\ cost.avg_monthly_cost = FromInt(30)

(***************************************************************************)
(* The service: start-up, then requests for the subscriptions of a file.   *)
(***************************************************************************)
MaxStored == 2      \* most rows of a stored CSV
\* the headers of the stored CSVs, and what each column holds
Layouts ==
    {[columns |-> <<<<"D", "a", "t", "e">>, <<"D", "e", "s", "c", "r", "i", "p", "t", "i", "o", "n">>, <<"A", "m", "o", "u", "n", "t">>>>,
      holds |-> <<"date", "description", "amount">>],
     [columns |-> <<<<"T", "i", "m", "e">>, <<"P", "a", "y", "e", "e">>>>,
      holds |-> <<"date", "description">>],
     [columns |-> <<<<"M", "e", "r", "c", "h", "a", "n", "t">>, <<"D", "e", "b", "i", "t">>>>,
      holds |-> <<"description", "amount">>]}
\* expenses of two merchants, an income, a row without a date and a row
\* without a numeric amount
StoredRows ==
    {[date |-> Date(1, 5), description |-> <<"n", "f">>, amount |-> FromInt(-1)],
     [date |-> Date(2, 5), description |-> <<"n", "f">>, amount |-> FullAmount],
     [date |-> NaT, description |-> <<"n", "f">>, amount |-> FromInt(-1)],
     [date |-> Date(1, 5), description |-> <<"g", "+">>, amount |-> FromInt(-1)],
     [date |-> Date(1, 20), description |-> <<"g", "+">>, amount |-> FromInt(1)],
     [date |-> Date(2, 5), description |-> <<"g", "+">>, amount |-> NotANumber]}
CellOf(r, field) ==
    [date |-> IF field = "date" THEN r.date ELSE NaT,
     text |-> IF field = "description" THEN r.description ELSE NullText,
     number |-> IF field = "amount" THEN r.amount ELSE NotANumber]
Csv(layout, rows) ==
    [columns |-> layout.columns,
     rows |-> [i \in 1..Len(rows) |->
                 [j \in 1..Len(layout.holds) |-> CellOf(rows[i], layout.holds[j])]]]
StoredCsvs ==
    UNION {{Csv(layout, rows) : layout \in Layouts, rows \in [1..n -> StoredRows]} :
           n \in 0..MaxStored}
\* the models the model files may hold
StoredModels ==
    {saved \in SavedModels : saved.feature_names_in # Reverse(FeatureColumns)}
FileIds == {"f1", "f2"}
Thresholds == {Half, Rnd(3, 4, 0)}

Init ==
    /\ pc = "boot"
    /\ InitGlobals
    /\ files \in [{"f1"} -> StoredCsvs]
    /\ request = NoRequest /\ response = NoResponse
    /\ call = NoCall /\ answers = NoAnswers
    /\ registry = NoRegistry /\ issued = {"f1"} /\ clock = 0 /\ upload = NoUpload
    /\ IdleNorm /\ IdleFeat /\ IdleTrain /\ IdleKnn /\ IdlePerm /\ IdlePredict /\ IdleCost

\* startup_event: initialize_ml_model, then initialize_subscription_model;
\* the model files exist or not, and loading them succeeds or raises
Startup ==
    /\ pc = "boot"
    /\ ML_MODEL_LOADED' \in BOOLEAN
    /\ \E exist \in BOOLEAN, loads \in BOOLEAN, saved \in StoredModels :
          IF exist /\ loads
          THEN /\ SUBSCRIPTION_MODEL' = saved
               /\ SUBSCRIPTION_FEATURE_COLS' = saved.feature_names_in
               /\ SUBSCRIPTION_MODEL_LOADED' = TRUE
          ELSE /\ SUBSCRIPTION_MODEL_LOADED' = FALSE
               /\ UNCHANGED <<SUBSCRIPTION_MODEL, SUBSCRIPTION_FEATURE_COLS>>
    /\ pc' = "serving"
    /\ UNCHANGED <<normVars, featVars, trainVars, predVars, costVars, knnVars, permVars,
                   files, request, response, call, answers, uploadVars>>

\* GET /files/{file_id}/subscriptions?threshold=...
\* the handler's effects: its answer, the call of the scorer it made and
\* what that call left of the model and the column list
Scoring(file_id, threshold) ==
    /\ request' = [file_id |-> file_id, threshold |-> threshold]
    /\ response' = GetSubscriptionsResponse(files,
                       SUBSCRIPTION_MODEL_LOADED, SUBSCRIPTION_MODEL,
                       SUBSCRIPTION_FEATURE_COLS, file_id, threshold)
    /\ call' = ScorerCall(files, SUBSCRIPTION_MODEL_LOADED, file_id)
    /\ IF call'.called
       THEN /\ SUBSCRIPTION_MODEL' =
                  AfterPredict(SUBSCRIPTION_MODEL, SUBSCRIPTION_FEATURE_COLS).model
            /\ SUBSCRIPTION_FEATURE_COLS' =
                  AfterPredict(SUBSCRIPTION_MODEL,
                               SUBSCRIPTION_FEATURE_COLS).feature_cols
       ELSE UNCHANGED <<SUBSCRIPTION_MODEL, SUBSCRIPTION_FEATURE_COLS>>
    /\ UNCHANGED <<ML_MODEL_LOADED, SUBSCRIPTION_MODEL_LOADED, files>>
GetSubscriptions ==
    /\ pc = "serving"
    /\ \E file_id \in FileIds, threshold \in Thresholds :
          Scoring(file_id, threshold)
    /\ upload' = NoUpload
    /\ UNCHANGED <<pc, normVars, featVars, trainVars, predVars, costVars, knnVars, permVars,
                   answers, registry, issued, clock>>

Next == Startup \/ GetSubscriptions
Spec == Init /\ [][Next]_vars

\* C4: while the subscription model is not loaded, a request for a stored
\* file is answered 503 "Subscription model not loaded", with no
\* subscription list.
C4_ModelUnavailable ==
    (pc = "serving" /\ request # NoRequest /\ request.file_id \in DOMAIN files
        /\ ~SUBSCRIPTION_MODEL_LOADED) =>
        /\ response.status = 503
        /\ response.status # 200
        /\ response.body = NoBody
\* a request for a stored file with expenses, answered without a model
C4_Witness ==
    /\ pc = "serving" /\ ~SUBSCRIPTION_MODEL_LOADED
    /\ request.file_id = "f1"
    /\ Len(files["f1"].rows) > 0
    /\ response.status = 503

\* the answer to the request at another threshold, from the same state
AnswerAt(t) ==
    GetSubscriptionsResponse(files, SUBSCRIPTION_MODEL_LOADED, SUBSCRIPTION_MODEL,
                             SUBSCRIPTION_FEATURE_COLS, request.file_id, t)
IsPrefix(a, b) == Len(a) <= Len(b) /\ SubSeq(b, 1, Len(a)) = a
\* list is the rows of every with a score of at least t, in their order,
\* by score non-increasing
AtLeast(list, every, t) ==
    /\ list = SelectSeq(every, LAMBDA r : FGe(r.subscription_score, t))
    /\ \A i \in 1..(Len(list) - 1) :
          FGe(list[i].subscription_score, list[i + 1].subscription_score)

\* C12: a successful answer lists exactly the scored merchants with
\* score >= threshold, by score descending; total_subscriptions is the
\* length of the list; the answer at a higher threshold is a prefix of it.
C12_Threshold ==
    (pc = "serving" /\ response.status = 200) =>
        /\ AtLeast(response.body.subscriptions, AnswerAt(Zero).body.subscriptions,
                   request.threshold)
        /\ response.body.total_subscriptions = Len(response.body.subscriptions)
        /\ \A t \in Thresholds :
              FLe(request.threshold, t) =>
                  IsPrefix(AnswerAt(t).body.subscriptions,
                           response.body.subscriptions)
\* an answer that lists a merchant scored exactly at the threshold and
\* leaves out one scored below it
C12_Witness ==
    /\ pc = "serving" /\ response.status = 200
    /\ Len(response.body.subscriptions) = 1
    /\ response.body.subscriptions[1].subscription_score = request.threshold
    /\ Len(AnswerAt(Zero).body.subscriptions) = 2

\* a number that is zero or negative
NonPositive(a) == a.k \in {"num", "inf"} /\ ~FGt(a, Zero)
\* the rows of the requested file whose amount cell is a number <= 0 (every
\* row when the file has no amount column: the amount is then set to 0.0)
ExpenseRowsOfFile ==
    LET csv == files[request.file_id]
        amount_col == FirstMatch(csv.columns, AmountKeywords)
    IN  {i \in 1..Len(csv.rows) :
            amount_col # 0 => NonPositive(csv.rows[i][amount_col].number)}

\* C13: every row a request hands to predict_subscriptions has amount <= 0
\* (rows with a positive or an unparseable amount are left out, the others
\* are all handed over), and without such a row the scorer is not called.
C13_OnlyExpenses ==
    (pc = "serving" /\ request # NoRequest) =>
        /\ \A i \in 1..Len(call.rows) : NonPositive(call.rows[i].amount)
        /\ call.called =>
              /\ request.file_id \in DOMAIN files
              /\ Len(call.rows) = Cardinality(ExpenseRowsOfFile)
        /\ (request.file_id \in DOMAIN files /\ ExpenseRowsOfFile = {}) =>
              ~call.called
        /\ response.status = 200 => call.called
\* a file with an expense and an income, of which the scorer got the expense
C13_Witness ==
    /\ pc = "serving" /\ call.called
    /\ Len(files["f1"].rows) = 2 /\ Len(call.rows) = 1
    /\ \E i \in 1..2 : \E j \in 1..Len(files["f1"].columns) :
          FGt(files["f1"].rows[i][j].number, Zero)
\* a file with income only, for which the scorer was not called
C13_NoExpenseWitness ==
    /\ pc = "serving" /\ request.file_id = "f1" /\ SUBSCRIPTION_MODEL_LOADED
    /\ Len(files["f1"].rows) = 1 /\ ExpenseRowsOfFile = {}
    /\ ~call.called /\ response.status = 500

(***************************************************************************)
(* The upload directory and the hash registry: upload_transaction_csv and  *)
(* delete_file.  An uploaded content is what its bytes are to the handler: *)
(* whether they decode as UTF-8, what pd.read_csv makes of the text, and   *)
(* the table it reads.  An empty file is a table without columns.          *)
(***************************************************************************)
MaxUploads == 3     \* most file ids issued
EmptyCsv == [columns |-> <<>>, rows |-> <<>>]
\* hashlib.sha256(content).hexdigest(), taken to be free of collisions
CalculateFileHash(content) == [sha256 |-> content]
\* file.filename.endswith('.csv')
EndsWithCsv(filename) ==
    /\ Len(filename) >= 4
    /\ SubSeq(filename, Len(filename) - 3, Len(filename)) = <<".", "c", "s", "v">>
\* a function without the key k, and with the value v at k
Without(f, k) ==
    IF DOMAIN f \ {k} = {} THEN <<>> ELSE [x \in DOMAIN f \ {k} |-> f[x]]
With(f, k, v) == [x \in DOMAIN f \cup {k} |-> IF x = k THEN v ELSE f[x]]
\* register_file_hash
RegisterFileHash(reg, file_hash, file_id, filename, now) ==
    With(reg, file_hash,
         [file_id |-> file_id, filename |-> filename, upload_time |-> now])
\* str(uuid.uuid4()): an id never issued before (the first free name)
IdNames == <<"f1", "f2", "f3", "f4", "f5">>
FreshId(used) ==
    IdNames[CHOOSE i \in 1..Len(IdNames) :
                /\ IdNames[i] \notin used
                /\ \A j \in 1..(i - 1) : IdNames[j] \in used]
UploadAnswer(content, filename, status, file_id, is_duplicate) ==
    [op |-> "upload", content |-> content, filename |-> filename,
     status |-> status, file_id |-> file_id, is_duplicate |-> is_duplicate]

\* lines 1364-1464, for a content that is not registered: the file is
\* opened for writing before the bytes are decoded (1396-1398), so bytes
\* that are not UTF-8 leave an empty file behind and a 500; a text that
\* pd.read_csv rejects is stored, registered and removed again (1421-1449)
StoreNew(content, filename, file_id) ==
    /\ issued' = issued \cup {file_id}
    /\ IF ~content.utf8
       THEN /\ files' = With(files, file_id, EmptyCsv)
            /\ upload' = UploadAnswer(content, filename, 500, "", FALSE)
            /\ UNCHANGED <<registry, clock>>
       ELSE IF content.parse = "ok"
       THEN /\ files' = With(files, file_id, content.csv)
            /\ clock' = clock + 1
            /\ registry' = RegisterFileHash(registry, CalculateFileHash(content),
                                            file_id, filename, clock + 1)
            /\ upload' = UploadAnswer(content, filename, 200, file_id, FALSE)
       ELSE /\ clock' = clock + 1
            /\ upload' = UploadAnswer(content, filename, 400, "", FALSE)
            /\ UNCHANGED <<files, registry>>
\* upload_transaction_csv(file)
UploadTransactionCsv(content, filename) ==
    IF ~EndsWithCsv(filename)
    THEN /\ upload' = UploadAnswer(content, filename, 400, "", FALSE)
         /\ UNCHANGED <<files, registry, issued, clock>>
    ELSE IF CalculateFileHash(content) \in DOMAIN registry
    THEN /\ upload' = UploadAnswer(content, filename, 200,
                           registry[CalculateFileHash(content)].file_id, TRUE)
         /\ UNCHANGED <<files, registry, issued, clock>>
    ELSE /\ Cardinality(issued) < MaxUploads
         /\ StoreNew(content, filename, FreshId(issued))
\* delete_file(file_id): the registry entry of the file, then the file
DeleteFile(file_id) ==
    IF file_id \notin DOMAIN files
    THEN /\ upload' = [NoUpload EXCEPT !.op = "delete", !.status = 404]
         /\ UNCHANGED <<files, registry, issued, clock>>
    ELSE /\ registry' =
              IF \E h \in DOMAIN registry : registry[h].file_id = file_id
              THEN Without(registry, CHOOSE h \in DOMAIN registry :
                                        registry[h].file_id = file_id)
              ELSE registry
         /\ files' = Without(files, file_id)
         /\ upload' = [NoUpload EXCEPT !.op = "delete", !.status = 200,
                                       !.file_id = file_id]
         /\ UNCHANGED <<issued, clock>>

\* GET /subscriptions/status
SubscriptionStatus(loaded) ==
    [status |-> 200, detail |-> IF loaded THEN "model_loaded" ELSE "model_not_loaded",
     body |-> NoBody]
\* GET /files/{file_id}/categorized, its status only
CategorizedStatus(stored, file_id) ==
    IF file_id \notin DOMAIN stored THEN {404}
    ELSE IF stored[file_id].columns = <<>> THEN {500}
    ELSE {200, 500}

\* the contents uploaded: a table with an expense and an income, an empty
\* file, a text that pd.read_csv cannot parse, and bytes that are not UTF-8
GoodCsv ==
    Csv([columns |-> <<<<"D", "a", "t", "e">>, <<"P", "a", "y", "e", "e">>, <<"D", "e", "b", "i", "t">>>>,
         holds |-> <<"date", "description", "amount">>],
        <<[date |-> Date(1, 5), description |-> <<"n", "f">>, amount |-> FromInt(-1)],
          [date |-> Date(1, 20), description |-> <<"g", "+">>, amount |-> FromInt(1)]>>)
Contents ==
    {[utf8 |-> TRUE, parse |-> "ok", csv |-> GoodCsv],
     [utf8 |-> TRUE, parse |-> "EmptyDataError", csv |-> EmptyCsv],
     [utf8 |-> TRUE, parse |-> "ParserError", csv |-> EmptyCsv],
     [utf8 |-> FALSE, parse |-> "UnicodeDecodeError", csv |-> EmptyCsv]}
Filenames == {<<"a", ".", "c", "s", "v">>, <<"a", ".", "t", "x", "t">>}

InitFiles ==
    /\ pc = "boot"
    /\ IdleNorm /\ IdleFeat /\ IdleTrain /\ IdleKnn /\ IdlePerm /\ IdlePredict /\ IdleCost /\ IdleService

Upload ==
    /\ pc = "serving"
    /\ \E content \in Contents, filename \in Filenames :
          UploadTransactionCsv(content, filename)
    /\ request' = NoRequest /\ response' = NoResponse /\ call' = NoCall
    /\ UNCHANGED <<pc, normVars, featVars, trainVars, predVars, costVars, knnVars, permVars,
                   globals, answers>>
Delete ==
    /\ pc = "serving"
    /\ \E file_id \in FileIds : DeleteFile(file_id)
    /\ request' = NoRequest /\ response' = NoResponse /\ call' = NoCall
    /\ UNCHANGED <<pc, normVars, featVars, trainVars, predVars, costVars, knnVars, permVars,
                   globals, answers>>
GetSubscriptionModelStatus ==
    /\ pc = "serving"
    /\ request' = NoRequest
    /\ response' = SubscriptionStatus(SUBSCRIPTION_MODEL_LOADED)
    /\ call' = NoCall /\ upload' = NoUpload
    /\ UNCHANGED <<pc, normVars, featVars, trainVars, predVars, costVars, knnVars, permVars,
                   globals, files, answers, registry, issued, clock>>
GetCategorizedTransactions ==
    /\ pc = "serving"
    /\ \E file_id \in FileIds :
          /\ request' = [file_id |-> file_id, threshold |-> Zero]
          /\ \E status \in CategorizedStatus(files, file_id) :
                response' = [status |-> status, detail |-> "categorized",
                             body |-> NoBody]
    /\ call' = NoCall /\ upload' = NoUpload
    /\ UNCHANGED <<pc, normVars, featVars, trainVars, predVars, costVars, knnVars, permVars,
                   globals, files, answers, registry, issued, clock>>

NextFiles ==
    \/ Startup
    \/ Upload
    \/ Delete
    \/ GetSubscriptions
    \/ GetSubscriptionModelStatus
    \/ GetCategorizedTransactions
SpecFiles == InitFiles /\ [][NextFiles]_vars

\* C14: after start-up no request changes SUBSCRIPTION_MODEL,
\* SUBSCRIPTION_FEATURE_COLS or SUBSCRIPTION_MODEL_LOADED: only the step
\* from "boot" assigns them, and a scoring call leaves the model and the
\* column list as they were.
C14_ModelReadOnly ==
    [][pc = "serving" =>
          UNCHANGED <<SUBSCRIPTION_MODEL, SUBSCRIPTION_FEATURE_COLS,
                      SUBSCRIPTION_MODEL_LOADED>>]_vars
\* a request that called the scorer with the loaded model
C14_Witness ==
    /\ pc = "serving" /\ SUBSCRIPTION_MODEL_LOADED
    /\ call.called /\ response.status = 200
    /\ SUBSCRIPTION_FEATURE_COLS = FeatureColumns

\* an upload under a .csv name that directly follows an upload of the same
\* bytes under a .csv name
RepeatedUpload ==
    /\ upload.op = "upload" /\ EndsWithCsv(upload.filename)
    /\ upload'.op = "upload" /\ EndsWithCsv(upload'.filename)
    /\ upload'.content = upload.content
\* C20: uploading the same bytes again creates no stored file and leaves the
\* hash registry as it is, so that repeated uploads of one content never
\* leave more than the one stored file of its first upload.
C20_OneStoredFile ==
    [][RepeatedUpload => (files' = files /\ registry' = registry)]_vars
\* the part that holds: bytes that are registered, uploaded under a .csv
\* name, are answered with the registered id and is_duplicate, and neither
\* a stored file nor the registry changes
C20_RegisteredIsDuplicate ==
    [][(/\ upload'.op = "upload" /\ EndsWithCsv(upload'.filename)
        /\ CalculateFileHash(upload'.content) \in DOMAIN registry) =>
          /\ upload'.status = 200 /\ upload'.is_duplicate
          /\ upload'.file_id = registry[CalculateFileHash(upload'.content)].file_id
          /\ files' = files /\ registry' = registry]_vars
\* a second upload of registered bytes answered as a duplicate
C20_DuplicateWitness ==
    /\ upload.op = "upload" /\ upload.is_duplicate /\ upload.status = 200
    /\ upload.file_id \in DOMAIN files
    /\ Cardinality(DOMAIN files) = 1

(***************************************************************************)
(* Scoring requests repeated in any order against one stored file and one  *)
(* loaded model.  A handler runs to its end without awaiting, so requests  *)
(* are answered one after the other.  The rows are an expense, an amount   *)
(* that pd.read_csv reads as -inf, and an income.                          *)
(***************************************************************************)
RepeatRows ==
    {[date |-> Date(1, 5), description |-> <<"n", "f">>, amount |-> FromInt(-1)],
     [date |-> Date(1, 5), description |-> <<"g", "+">>, amount |-> Inf(-1)],
     [date |-> Date(1, 20), description |-> <<"g", "+">>, amount |-> FromInt(1)]}
RepeatCsvs ==
    UNION {{Csv(layout, rows) :
                layout \in {l \in Layouts : Len(l.columns) = 3},
                rows \in [1..n -> RepeatRows]} : n \in 0..MaxStored}
\* the state after start-up and the upload of one file
InitRepeat ==
    /\ pc = "serving"
    /\ ML_MODEL_LOADED = FALSE
    /\ \/ /\ SUBSCRIPTION_MODEL_LOADED = FALSE
          /\ SUBSCRIPTION_MODEL = None /\ SUBSCRIPTION_FEATURE_COLS = NoColumns
       \/ /\ SUBSCRIPTION_MODEL_LOADED = TRUE
          /\ SUBSCRIPTION_MODEL \in StoredModels
          /\ SUBSCRIPTION_FEATURE_COLS = SUBSCRIPTION_MODEL.feature_names_in
    /\ \E csv \in RepeatCsvs :
          /\ files = With(NoFiles, "f1", csv)
          /\ registry = RegisterFileHash(NoRegistry,
                 CalculateFileHash([utf8 |-> TRUE, parse |-> "ok", csv |-> csv]),
                 "f1", <<"a", ".", "c", "s", "v">>, 1)
    /\ issued = {"f1"} /\ clock = 1 /\ upload = NoUpload
    /\ request = NoRequest /\ response = NoResponse
    /\ call = NoCall /\ answers = NoAnswers
    /\ IdleNorm /\ IdleFeat /\ IdleTrain /\ IdleKnn /\ IdlePerm /\ IdlePredict /\ IdleCost

\* a scoring request; its answer is kept when it is the first to the request
GetSubscriptionsAgain ==
    /\ pc = "serving"
    /\ \E file_id \in FileIds, threshold \in Thresholds :
          Scoring(file_id, threshold)
    /\ answers' = IF request' \in DOMAIN answers THEN answers
                  ELSE With(answers, request', response')
    /\ upload' = NoUpload
    /\ UNCHANGED <<pc, normVars, featVars, trainVars, predVars, costVars, knnVars, permVars,
                   registry, issued, clock>>
NextRepeat == GetSubscriptionsAgain
SpecRepeat == InitRepeat /\ [][NextRepeat]_vars

ResponseFloats ==
    {response.body.total_monthly_cost}
    \cup UNION {{response.body.subscriptions[i].subscription_score,
                 response.body.subscriptions[i].median_gap_days,
                 response.body.subscriptions[i].day_consistency,
                 response.body.subscriptions[i].average_amount,
                 response.body.subscriptions[i].average_monthly_cost,
                 response.body.subscriptions[i].autocorrelation_30d} :
                    i \in 1..Len(response.body.subscriptions)}
\* C16: every numeric value of a successful subscriptions answer is finite:
\* no NaN and no infinity, whatever the stored file holds.
C16_FiniteResponse ==
    response.status = 200 => \A v \in ResponseFloats : IsFinite(v)
\* what holds: no infinity is returned, since the extractor turns it into NaN
C16_NoInfinity ==
    response.status = 200 => \A v \in ResponseFloats : v.k \in {"num", "nan"}

(***************************************************************************)
(* backend/ML_models/categories_knn.py: the vote of knn_predict over the   *)
(* neighbours that the index returns, in the order it returns them.        *)
(***************************************************************************)
MaxK == 3           \* most neighbours asked for (k)

\* normalize_category
NormalizeCategoryKept(category) == category
NormalizeCategory(category) ==
    IF category \in {"Other", "Uncategorized"} THEN "Uncategorized" ELSE category

\* line 68: the normalised label of every neighbour
NormalizedLabels(labels) == [i \in 1..Len(labels) |-> NormalizeCategory(labels[i])]
\* the positions at which a label stands
PositionsOf(labels, lab) == {i \in 1..Len(labels) : labels[i] = lab}
\* the n-th smallest position of a set of positions
RECURSIVE NthOf(_, _)
NthOf(S, n) ==
    LET lo == CHOOSE i \in S : \A j \in S : i <= j
    IN  IF n = 1 THEN lo ELSE NthOf(S \ {lo}, n - 1)
\* lines 71-73: the similarities of each label, in the order of the neighbours
BucketAt(sims, S) == [n \in 1..Cardinality(S) |-> sims[NthOf(S, n)]]
Buckets(labels, sims) ==
    [lab \in {labels[i] : i \in 1..Len(labels)} |->
        BucketAt(sims, PositionsOf(labels, lab))]
\* the labels in the order in which the dict received them
FirstSeen(labels) ==
    SelectSeq([i \in 1..Len(labels) |-> [lab |-> labels[i], first |-> i]],
              LAMBDA e : \A j \in 1..(e.first - 1) : labels[j] # e.lab)
\* line 78: (len(arr), float(np.sum(arr)))
VoteKey(arr) == [count |-> Len(arr), total |-> FSum(arr)]
\* key > best_key on tuples: the first component that differs decides
KeyGreater(a, b) ==
    IF a.count # b.count THEN a.count > b.count
    ELSE IF IsNaN(a.total) \/ IsNaN(b.total) \/ a.total # b.total
    THEN FGt(a.total, b.total)
    ELSE FALSE
\* lines 75-81
RECURSIVE BestFrom(_, _, _, _, _)
BestFrom(buckets, order, i, best_label, best_key) ==
    IF i > Len(order) THEN best_label
    ELSE IF KeyGreater(VoteKey(buckets[order[i].lab]), best_key)
    THEN BestFrom(buckets, order, i + 1, order[i].lab,
                  VoteKey(buckets[order[i].lab]))
    ELSE BestFrom(buckets, order, i + 1, best_label, best_key)
BestLabel(buckets, order) ==
    BestFrom(buckets, order, 1, "", [count |-> -1, total |-> FromInt(-1)])
\* lines 83-86
Returned(buckets, best_label, confidence, threshold) ==
    [buckets |-> buckets, best_label |-> best_label, confidence |-> confidence,
     label |-> IF FLt(confidence, threshold) THEN "Uncategorized" ELSE best_label]
Voted(buckets, best_label, threshold) ==
    Returned(buckets, best_label, Mean(buckets[best_label]), threshold)
VoteOn(labels, sims, threshold) ==
    Voted(Buckets(labels, sims), BestLabel(Buckets(labels, sims), FirstSeen(labels)),
          threshold)
\* knn_predict(desc, k, threshold), from line 65 on
KnnPredict(labels, sims, threshold) ==
    VoteOn(NormalizedLabels(labels), sims, threshold)

\* the labels of the training set, the similarities 1 - dist, and the
\* thresholds: the default 0.35 and one that nothing falls under
KnnLabels == {"Other", "Uncategorized", "Food"}
Similarities == {Zero, Rnd(1, 4, 0), One}
KnnThresholds == {Rnd(35, 100, 0), Zero}

InitKnn ==
    /\ pc = "input"
    /\ \E k \in 1..MaxK :
         neighbors \in [labels : [1..k -> KnnLabels], sims : [1..k -> Similarities],
                        threshold : KnnThresholds]
    /\ knn = NoVote
    /\ IdleNorm /\ IdleFeat /\ IdleTrain /\ IdlePerm /\ IdlePredict /\ IdleCost
    /\ IdleService

KnnVote ==
    /\ pc = "input"
    /\ knn' = KnnPredict(neighbors.labels, neighbors.sims, neighbors.threshold)
    /\ pc' = "voted"
    /\ UNCHANGED <<neighbors, normVars, featVars, trainVars, predVars, costVars,
                   permVars, serviceVars>>

NextKnn == KnnVote
SpecKnn == InitKnn /\ [][NextKnn]_vars

\* the neighbours whose label is "Other" or "Uncategorized"
Unlabelled == {i \in 1..Len(neighbors.labels) :
                  neighbors.labels[i] \in {"Other", "Uncategorized"}}
\* C21: knn_predict never returns "Other"; the neighbours labelled "Other"
\* and "Uncategorized" are one class "Uncategorized" in the vote; and a
\* winning class whose mean similarity is under the threshold is returned
\* as "Uncategorized".
C21_NeverOther ==
    pc = "voted" =>
        /\ knn.label # "Other"
        /\ "Other" \notin DOMAIN knn.buckets
        /\ Unlabelled # {} =>
              /\ "Uncategorized" \in DOMAIN knn.buckets
              /\ Len(knn.buckets["Uncategorized"]) = Cardinality(Unlabelled)
        /\ knn.confidence = Mean(knn.buckets[knn.best_label])
        /\ FLt(knn.confidence, neighbors.threshold) => knn.label = "Uncategorized"
\* neighbours labelled "Other" win the vote with a mean similarity that is
\* not under the threshold
C21_Witness ==
    /\ pc = "voted"
    /\ \E i \in 1..Len(neighbors.labels) : neighbors.labels[i] = "Other"
    /\ \E i \in 1..Len(neighbors.labels) : neighbors.labels[i] = "Uncategorized"
    /\ knn.best_label = "Uncategorized"
    /\ ~FLt(knn.confidence, neighbors.threshold)
    /\ neighbors.threshold # Zero
\* a class other than "Uncategorized" wins under the threshold
C21_LowWitness ==
    /\ pc = "voted"
    /\ knn.best_label = "Food"
    /\ FLt(knn.confidence, neighbors.threshold)
    /\ knn.label = "Uncategorized"

(***************************************************************************)
(* The feature extractor on one merchant whose charges fall on a few days  *)
(* that lie one, thirty and thirty-one days apart.                         *)
(***************************************************************************)
AutocorrDates == {Date(1, 5), Date(1, 6), Date(2, 4), Date(2, 5), Date(3, 7)}

InitAutocorr ==
    /\ pc = "input"
    /\ \E n \in 1..MaxTx :
          df \in [cols : {AllColumns},
                  rows : [1..n -> [date : AutocorrDates, description : {<<"n", "f">>},
                                   amount : {FromInt(-1)}]]]
    /\ feats = NoFeatures
    /\ IdleNorm /\ IdleTrain /\ IdleKnn /\ IdlePerm /\ IdlePredict /\ IdleCost
    /\ IdleService

SpecAutocorr == InitAutocorr /\ [][NextFeat]_vars

\* the days charged, the first and the last of them
DaysCharged == {df.rows[i].date : i \in 1..Len(df.rows)}
FirstDay == CHOOSE d \in DaysCharged : \A o \in DaysCharged : d <= o
LastDay == CHOOSE d \in DaysCharged : \A o \in DaysCharged : o <= d
\* the daily indicator is the same on every day from lo to hi
Constant(lo, hi) ==
    \/ \A d \in lo..hi : d \in DaysCharged
    \/ \A d \in lo..hi : d \notin DaysCharged
\* C22: autocorr_30d is exactly 0.0 when the span of the merchant's dates
\* is 30 days or less, and when the leading or the shifted half of its
\* daily indicator series has zero variance.
C22_AutocorrZero ==
    pc = "extracted" =>
        /\ Len(feats.rows) = 1
        /\ (\/ LastDay - FirstDay <= Lag
            \/ Constant(FirstDay, LastDay - Lag)
            \/ Constant(FirstDay + Lag, LastDay)) =>
                feats.rows[1].autocorr_30d = Zero
\* a span of exactly 30 days
C22_Witness ==
    /\ pc = "extracted"
    /\ LastDay - FirstDay = Lag
    /\ feats.rows[1].span_days = Lag
    /\ feats.rows[1].autocorr_30d = Zero
\* a span of 31 days whose leading half is charged on both of its days
C22_ConstantHalfWitness ==
    /\ pc = "extracted"
    /\ LastDay - FirstDay = Lag + 1
    /\ Constant(FirstDay, LastDay - Lag)
    /\ feats.rows[1].autocorr_30d = Zero
\* a span of 31 days with a correlation that is not zero
C22_NonZeroWitness ==
    /\ pc = "extracted"
    /\ LastDay - FirstDay > Lag
    /\ feats.rows[1].autocorr_30d # Zero

(***************************************************************************)
(* Gaps and days of the month, on the tables of SpecFeat.                  *)
(***************************************************************************)
\* the dates of the usable rows of key m
DatesOfKey(m) == {df.rows[i].date : i \in RowsOfKey(m)}
\* the feature row of key m
RowOfKey(m) == CHOOSE r \in FeatureRows : r.merchant = m
\* the dates of a group, oldest first
DatesOfGroup(g) == [i \in 1..Len(g) |-> g[i].date]
\* what the claim says of a feature row, given the gaps of its group
ZeroMeanOrQuotient(r, gaps) ==
    IF \A i \in 1..Len(gaps) : gaps[i] = Zero
    THEN /\ r.gap_cv = One
         /\ r.median_gap_days = Zero
         /\ r.span_days = 0
    ELSE /\ IsFinite(Mean(gaps)) /\ Mean(gaps) # Zero
         /\ r.gap_cv = FDiv(Std(gaps), Mean(gaps))

\* C23: a merchant with two or more transactions, all on one date, has
\* gap_cv = 1.0, median_gap_days = 0 and span_days = 0; gap_cv is
\* stdev(gaps) / mean(gaps) when the mean of the gaps is finite and not
\* zero, and only then.
C23_ZeroMeanGaps ==
    pc = "extracted" =>
        \A r \in FeatureRows : r.n_occurrences >= 2 =>
            ZeroMeanOrQuotient(r, GapsOf(DatesOfGroup(Group(Prepare(df), r.merchant))))
\* a merchant with several transactions on one date
C23_Witness ==
    /\ pc = "extracted"
    /\ \E m \in KeysOfTable :
          /\ Cardinality(RowsOfKey(m)) >= 2
          /\ Cardinality(DatesOfKey(m)) = 1
          /\ RowOfKey(m).gap_cv = One
\* a merchant with three transactions on two dates, whose gap_cv is the
\* quotient
C23_QuotientWitness ==
    /\ pc = "extracted"
    /\ \E m \in KeysOfTable :
          /\ Cardinality(RowsOfKey(m)) = 3
          /\ Cardinality(DatesOfKey(m)) = 2
          /\ IsFinite(RowOfKey(m).gap_cv)
          /\ RowOfKey(m).gap_cv # One

\* the usable rows of key m that fall on day d of a month
OnDay(m, d) == {i \in RowsOfKey(m) : DayOf(df.rows[i].date) = d}
\* the day of the month of each of the rows S of df
DaysOfRows(S) == [i \in S |-> DayOf(df.rows[i].date)]
CountOn(days, d) == Cardinality({i \in DOMAIN days : days[i] = d})
\* d is the smallest of the days of the month with the most rows (a day
\* without a row has fewer rows than any day with one)
IsMode(days, d) ==
    /\ d \in 1..31
    /\ CountOn(days, d) >= 1
    /\ \A i \in DOMAIN days :
          /\ CountOn(days, days[i]) <= CountOn(days, d)
          /\ CountOn(days, days[i]) = CountOn(days, d) => d <= days[i]
\* count / n as floats
Fraction(count, n) == FDiv(FromInt(count), FromInt(n))
\* C24: day_of_month_mode is a day of the month in 1..31 on which the
\* merchant has the most transactions, the smallest such day on a tie, and
\* dom_consistency is the number of transactions on that day divided by
\* n_occurrences, hence between 1 / n_occurrences and 1.
ModeOfDays(r, days) ==
    /\ IsMode(days, r.day_of_month_mode)
    /\ r.n_occurrences = Cardinality(DOMAIN days)
    /\ r.dom_consistency = Fraction(CountOn(days, r.day_of_month_mode), r.n_occurrences)
    /\ FLe(Fraction(1, r.n_occurrences), r.dom_consistency)
    /\ FLe(r.dom_consistency, One)
C24_DayOfMonthMode ==
    pc = "extracted" =>
        \A r \in FeatureRows : ModeOfDays(r, DaysOfRows(RowsOfKey(r.merchant)))
\* a merchant with as many transactions on the 20th as on the 5th, the
\* 20th being the earlier date
C24_Witness ==
    /\ pc = "extracted"
    /\ \E r \in FeatureRows :
          /\ r.n_occurrences = 2
          /\ OnDay(r.merchant, 5) # {} /\ OnDay(r.merchant, 20) # {}
          /\ \E i \in OnDay(r.merchant, 20), j \in OnDay(r.merchant, 5) :
                df.rows[i].date < df.rows[j].date
          /\ r.day_of_month_mode = 5
          /\ r.dom_consistency = Half
\* a merchant with two of three transactions on one day of the month
C24_TwoOfThreeWitness ==
    /\ pc = "extracted"
    /\ \E r \in FeatureRows :
          /\ r.n_occurrences = 3
          /\ r.dom_consistency = Fraction(2, 3)

(***************************************************************************)
(* The answer of GET /files/{id}/subscriptions to an input it cannot score. *)
(***************************************************************************)
\* the requested file has columns, and no date or no description column
\* among them, or no row with an amount <= 0
Unscorable ==
    /\ request.file_id \in DOMAIN files
    /\ files[request.file_id].columns # <<>>
    /\ \/ LastMatch(files[request.file_id].columns, DateKeywords) = 0
       \/ LastMatch(files[request.file_id].columns, DescriptionKeywords) = 0
       \/ ExpenseRowsOfFile = {}
\* C25: with the model loaded, an input without a recognisable date or
\* description column, or without an expense row, is answered with 400.
C25_BadInputIs400 ==
    (pc = "serving" /\ request # NoRequest /\ SUBSCRIPTION_MODEL_LOADED /\ Unscorable)
        => response.status = 400
\* what holds: such an input is answered with 500, without a call of the
\* scorer, and the endpoint never answers 400
C25_BadInputIs500 ==
    /\ response.status # 400
    /\ (pc = "serving" /\ request # NoRequest /\ SUBSCRIPTION_MODEL_LOADED /\ Unscorable)
          => (response.status = 500 /\ ~call.called)

(***************************************************************************)
(* Uploads that are turned down.                                           *)
(***************************************************************************)
\* the step is an upload that is not answered with 200
Rejected == upload'.op = "upload" /\ upload'.status # 200
\* C26: an upload that is rejected (a name without .csv, an empty or an
\* unparsable CSV, bytes that are not UTF-8) is answered with 400 and
\* leaves the stored files and the hash registry as they were.
C26_RejectedLeavesNothing ==
    [][Rejected => (upload'.status = 400 /\ files' = files /\ registry' = registry)]_vars
\* what holds: so it is for every rejected upload of bytes that are UTF-8
C26_RejectedText ==
    [][(Rejected /\ upload'.content.utf8) =>
          (upload'.status = 400 /\ files' = files /\ registry' = registry)]_vars
\* an empty CSV turned down while another file is stored and registered
C26_TextWitness ==
    /\ upload.op = "upload" /\ upload.status = 400
    /\ upload.content.parse = "EmptyDataError"
    /\ EndsWithCsv(upload.filename)
    /\ Cardinality(DOMAIN files) = 1 /\ Cardinality(DOMAIN registry) = 1

(***************************************************************************)
(* The months covered, and the branch of the cost estimate they select.    *)
(***************************************************************************)
\* lines 852-853 alone: the estimate from the months covered
PrimaryCost(r) ==
    FMul(FAbs(r.amount_mean),
         FDiv(FromInt(r.n_occurrences), FromInt(r.coverage_months)))
CoverageInRange(r) == 1 <= r.coverage_months /\ r.coverage_months <= r.n_occurrences
\* C27: every row of merchant_features has 1 <= coverage_months <=
\* n_occurrences, so the cost estimate of every scored candidate is the one
\* of the first branch, |amount_mean| * n_occurrences / coverage_months.
C27_CoverageInRange ==
    /\ pc = "extracted" => \A r \in FeatureRows : CoverageInRange(r)
    /\ pc = "predicted" =>
          \A i \in 1..Len(pred.out) :
              /\ CoverageInRange(pred.out[i])
              /\ MonthlyCost(pred.out[i]) = PrimaryCost(pred.out[i])
\* a scored merchant with two charges in one month, beside another merchant
C27_Witness ==
    /\ pc = "predicted" /\ Len(pred.out) = 2
    /\ \E i \in 1..2 : pred.out[i].coverage_months = 1 /\ pred.out[i].n_occurrences = 2
\* a scored merchant with charges in two months
C27_TwoMonthsWitness ==
    /\ pc = "predicted"
    /\ \E i \in 1..Len(pred.out) : pred.out[i].coverage_months = 2
\* the same in the answers of the endpoint: every candidate listed has its
\* cost from the first branch
C27_ListedCost ==
    response.status = 200 =>
        \A i \in 1..Len(response.body.subscriptions) :
            LET s == response.body.subscriptions[i]
            IN  /\ 1 <= s.coverage_months /\ s.coverage_months <= s.occurrences
                /\ s.average_monthly_cost =
                      Round2(FMul(FAbs(s.average_amount),
                                  FDiv(FromInt(s.occurrences), FromInt(s.coverage_months))))

(***************************************************************************)
(* The hash registry against the upload directory.                         *)
(***************************************************************************)
\* the registered hashes whose entry names the file id
EntriesOf(file_id) == {h \in DOMAIN registry : registry[h].file_id = file_id}
\* C28: after any uploads and deletes, every registry entry names a stored
\* file, no two entries name the same file, and every stored file is named
\* by exactly one entry.
C28_RegistryMatchesFiles ==
    /\ \A h \in DOMAIN registry : registry[h].file_id \in DOMAIN files
    /\ \A id \in issued : Cardinality(EntriesOf(id)) <= 1
    /\ \A id \in DOMAIN files : Cardinality(EntriesOf(id)) = 1
\* what holds: every entry names a stored file, and no two the same file
C28_EntriesNameFiles ==
    /\ \A h \in DOMAIN registry : registry[h].file_id \in DOMAIN files
    /\ \A id \in issued : Cardinality(EntriesOf(id)) <= 1
    /\ DOMAIN files \subseteq issued
\* a file stored and registered after another was uploaded and deleted
C28_AfterDeleteWitness ==
    /\ upload.op = "upload" /\ upload.status = 200 /\ upload.file_id = "f2"
    /\ DOMAIN files = {"f2"}
    /\ Cardinality(DOMAIN registry) = 1

(***************************************************************************)
(* The feature extractor on a table and on the same rows in another order. *)
(* The amounts are -1 and -u, u half a unit in the last place of 1: added  *)
(* to 1 one after the other the two u are lost, added together first they  *)
(* are not.                                                                *)
(***************************************************************************)
Tiny == Rnd(-1, MantHi, 0)
OrderRows ==
    {[date |-> Date(1, 5), description |-> <<"n", "f">>, amount |-> FromInt(-1)],
     [date |-> Date(1, 5), description |-> <<"n", "f">>, amount |-> Tiny],
     [date |-> Date(1, 20), description |-> <<"n", "f">>, amount |-> Tiny],
     [date |-> Date(2, 5), description |-> <<"N", "F">>, amount |-> Tiny],
     [date |-> Date(1, 20), description |-> <<"g", "+">>, amount |-> FromInt(-1)],
     [date |-> NaT, description |-> <<"n", "f">>, amount |-> FromInt(-1)],
     [date |-> Date(1, 5), description |-> NullText, amount |-> FromInt(-1)]}

InitOrder ==
    /\ pc = "input"
    /\ \E n \in 0..MaxTx :
          df \in [cols : {AllColumns}, rows : [1..n -> OrderRows]]
    /\ feats = NoFeatures
    /\ IdleNorm /\ IdleTrain /\ IdleKnn /\ IdlePerm /\ IdlePredict /\ IdleCost
    /\ IdleService

\* the orders of n rows
Orders(n) == {p \in [1..n -> 1..n] : \A i, j \in 1..n : p[i] = p[j] => i = j}
\* df.iloc[p]
Reordered(d, p) == [cols |-> d.cols, rows |-> [i \in 1..Len(d.rows) |-> d.rows[p[i]]]]
\* merchant_features on the rows of df in another order
ExtractShuffled ==
    /\ pc = "extracted"
    /\ \E p \in Orders(Len(df.rows)) :
          /\ shuffled' = Reordered(df, p)
          /\ refeats' = MerchantFeatures(Reordered(df, p))
    /\ pc' = "reextracted"
    /\ UNCHANGED <<normVars, featVars, trainVars, predVars, costVars, knnVars,
                   serviceVars>>

NextOrder == Extract \/ ExtractShuffled
SpecOrder == InitOrder /\ [][NextOrder]_vars

\* the usable rows of df
UsableRows ==
    {i \in 1..Len(df.rows) :
        ToDatetime(df.rows[i].date) # NaT /\ df.rows[i].description # NullText}
RECURSIVE SumOccurrences(_, _)
SumOccurrences(rows, i) ==
    IF i > Len(rows) THEN 0 ELSE rows[i].n_occurrences + SumOccurrences(rows, i + 1)
\* C29: merchant_features emits exactly one row per distinct normalised key
\* of the usable rows (a parseable date, a description), each with the
\* number of usable rows of its key, so that the n_occurrences add up to
\* the number of usable rows; the other rows belong to no merchant.
C29_Partition ==
    pc = "extracted" =>
        /\ feats.error = ""
        /\ {feats.rows[i].merchant : i \in 1..Len(feats.rows)} = UsableKeys
        /\ Len(feats.rows) = Cardinality(UsableKeys)
        /\ \A i \in 1..Len(feats.rows) :
              feats.rows[i].n_occurrences =
                  Cardinality({j \in UsableRows :
                      NormMerchant(df.rows[j].description) = feats.rows[i].merchant})
        /\ SumOccurrences(feats.rows, 1) = Cardinality(UsableRows)
\* two descriptions with one key, another merchant, and a row without a date
C29_Witness ==
    /\ pc = "extracted"
    /\ Len(df.rows) = 3 /\ Cardinality(UsableRows) = 2
    /\ \E i \in 1..3 : df.rows[i].date = NaT
    /\ \E i, j \in UsableRows :
          /\ df.rows[i].description # df.rows[j].description
          /\ NormMerchant(df.rows[i].description) = NormMerchant(df.rows[j].description)
    /\ Len(feats.rows) = 1 /\ feats.rows[1].n_occurrences = 2
\* a row without a description beside two merchants
C29_NoDescriptionWitness ==
    /\ pc = "extracted"
    /\ \E i \in 1..Len(df.rows) : df.rows[i].description = NullText
    /\ Len(feats.rows) = 2

\* the row of key m in the second extraction
ReRowOfKey(m) == CHOOSE r \in {refeats.rows[i] : i \in 1..Len(refeats.rows)} : r.merchant = m
\* the columns computed from sums of amounts
AmountColumns == {"amount_mean", "amount_cv", "amount_iqr_ratio"}
\* C30 as stated: for any order of the rows merchant_features gives the same
\* merchant keys with identical feature values.
C30_AsStated ==
    pc = "reextracted" => refeats = feats
\* C30: for any order of the rows merchant_features gives the same merchant
\* keys in the same order, with identical values in every column that is
\* not computed from a sum of amounts, and identical values in those too
\* for a merchant whose rows have dates that all differ.
C30_OrderIndependent ==
    pc = "reextracted" =>
        /\ refeats.error = feats.error
        /\ Len(refeats.rows) = Len(feats.rows)
        /\ \A i \in 1..Len(feats.rows) :
              /\ refeats.rows[i].merchant = feats.rows[i].merchant
              /\ \A c \in (FloatColumns \cup IntColumns) \ AmountColumns :
                    refeats.rows[i][c] = feats.rows[i][c]
              /\ Cardinality(DatesOfKey(feats.rows[i].merchant))
                    = Cardinality(RowsOfKey(feats.rows[i].merchant))
                 => refeats.rows[i] = feats.rows[i]
\* a merchant with amounts -1, -u, -u on three dates, extracted again with
\* the rows in the opposite order
C30_Witness ==
    /\ pc = "reextracted"
    /\ Len(df.rows) = 3 /\ Len(feats.rows) = 1
    /\ feats.rows[1].n_occurrences = 3 /\ feats.rows[1].coverage_months = 2
    /\ df.rows[1].date < df.rows[2].date /\ df.rows[2].date < df.rows[3].date
    /\ df.rows[1].amount = FromInt(-1)
    /\ shuffled.rows = Reverse(df.rows)
    /\ refeats = feats
\* a merchant with rows on two dates, extracted again with the later row
\* first, beside a row of another merchant
C30_TwoMerchantsWitness ==
    /\ pc = "reextracted"
    /\ Len(df.rows) = 3 /\ Len(feats.rows) = 2
    /\ \E i \in 1..2 : feats.rows[i].n_occurrences = 2 /\ feats.rows[i].span_days = 15
    /\ shuffled.rows[1].date > shuffled.rows[3].date
    /\ df.rows[1].date < df.rows[3].date
    /\ refeats = feats

====
